---- MODULE Spec2Model ----
(***************************************************************************)
(* Data-access core of the Production Data Hub (ykh00046/new_calculator):  *)
(* range routing and federation over the live and archive stores           *)
(* (shared/database.py), cursor pagination and summaries (api/main.py,     *)
(* api/tools.py) and the result cache (shared/cache.py).                   *)
(***************************************************************************)
EXTENDS Integers, Sequences, FiniteSets, TLC

VARIABLES
    \* ---- range router and federator (shared/database.py)
    phase,            \* position of the request being served
    date_from,        \* pick_targets argument, None = no lower bound
    date_to,          \* pick_targets argument (exclusive), None = no upper bound
    archive_exists,   \* ARCHIVE_DB_FILE.exists()
    targets,          \* DBTargets of the request, None before routing
    union_args,       \* remaining arguments of build_union_sql
    final_sql,        \* SQL text returned by build_union_sql (fragments)
    params_doubled,   \* flag returned by build_union_sql
    \* ---- the two stores and a federated read (shared/database.py, api/)
    archive_rows,     \* archive.production_records, row id = position
    live_rows,        \* production_records of the live store
    call,             \* the handler that ran and its arguments
    query_params,     \* parameter list from build_query_params
    result,           \* what the handler returned
    \* ---- cursor tokens and the records endpoint (api/main.py)
    cursor,           \* the token the client holds, <<>> = none
    encoded,          \* the arguments of the last _encode_cursor
    issued,           \* the client holds the token as the server issued it
    cursor_data,      \* what the last _decode_cursor returned
    results,          \* "data" of the last page
    has_more,         \* "has_more" of the last page
    fetched,          \* the rows of all pages so far, in order of arrival
    npages,           \* number of pages requested
    page_size,        \* the limit argument of the requests
    \* ---- the result cache (shared/cache.py)
    now,                    \* time.time()
    live_mtime,             \* os.path.getmtime(DB_FILE)
    archive_mtime,          \* os.path.getmtime(ARCHIVE_DB_FILE)
    writes,                 \* how many times the store files were written
    _db_version_cache,      \* <<>> = None
    _db_version_timestamp,
    _api_cache,             \* the TTLCache
    _cache_lock,            \* threading.Lock(): the thread that holds it, or none
    pc,                     \* each thread's position in the wrapper
    req,                    \* each thread's locals in the wrapper
    ret,                    \* what the call that has just returned did
    first,                  \* a call that stored its result, observed as a first call
    \* ---- the connection cache (shared/database.py)
    live_size,              \* os.path.getsize(DB_FILE)
    archive_size,           \* os.path.getsize(ARCHIVE_DB_FILE)
    connections,            \* every sqlite3.Connection made, a handle is its position
    _local,                 \* threading.local(): each thread's attributes
    _all_connections,       \* the handles tracked for the cleanup at exit
    seen_size,              \* the file sizes when a thread cached a handle
    conn_ret,               \* what the get_connection call that has just ended did
    \* ---- the query sandbox (api/tools.py)
    custom_query,           \* the execute_custom_query call: position, argument, locals
    query_conn,             \* its dedicated sqlite3.Connection, <<>> = none
    query_thread,           \* its worker thread
    query_result,           \* the result dict the worker fills
    \* ---- the rate limiter (shared/rate_limiter.py)
    _requests,              \* self._requests: the timestamps kept for each client
    _lock,                  \* self._lock: the thread that holds it, or none
    limiter_pc,             \* each thread's position in is_allowed
    limiter_local,          \* each thread's locals in is_allowed
    calls,                  \* the is_allowed calls that have returned, in order
    limiter_ret,            \* what the last call of another method returned
    \* ---- the watcher (tools/db_watcher.py, shared/db_maintenance.py)
    db_states,              \* DBWatcher.db_states: last known (mtime, size) per store
    log_queue,              \* the events put on the queue since the cycle began
    cycle,                  \* each thread's position and locals in _check_and_heal
    indexes,                \* the indexes of production_records in each store
    heal_ret,               \* what the last check_and_heal_indexes did
    running                 \* the DBWatcher thread: none yet, alive or stopped

routerVars == <<phase, date_from, date_to, archive_exists, targets,
                union_args, final_sql, params_doubled>>

storeVars == <<archive_rows, live_rows>>

cursorVars == <<cursor, encoded, issued, cursor_data>>

pageVars == <<results, has_more, fetched, npages, page_size>>

cacheVars == <<now, live_mtime, archive_mtime, writes, _db_version_cache,
               _db_version_timestamp, _api_cache, _cache_lock, pc, req, ret, first>>

connVars == <<live_size, archive_size, connections, _local, _all_connections, seen_size,
              conn_ret>>

sandboxVars == <<custom_query, query_conn, query_thread, query_result>>

\* The services beside the federated reads and the result cache.
limiterVars == <<_requests, _lock, limiter_pc, limiter_local, calls, limiter_ret>>

watcherVars == <<db_states, log_queue, cycle, indexes, heal_ret, running>>

serviceVars == <<connVars, sandboxVars, limiterVars, watcherVars>>

readVars == <<call, query_params, result, cursorVars, pageVars, cacheVars, serviceVars>>

\* All but the result cache.
requestVars == <<routerVars, storeVars, call, query_params, result, cursorVars, pageVars,
                 serviceVars>>

vars == <<routerVars, storeVars, readVars>>

\* Python's None.
None == "None"

(***************************************************************************)
(* Text.  A Python str is modelled as the sequence of its characters; the  *)
(* printable ASCII characters are listed in code-point order, so that      *)
(* comparisons and encodings work on code points as Python's do.  Code 96  *)
(* (the grave accent) cannot be written in a TLA+ string; its entry is     *)
(* spelled GRAVE and occurs in no text of the model.                       *)
(***************************************************************************)
AsciiTable ==
    <<" ", "!", "\"", "#", "$", "%", "&", "'", "(", ")", "*", "+", ",", "-", ".", "/",
      "0", "1", "2", "3", "4", "5", "6", "7", "8", "9", ":", ";", "<", "=", ">", "?",
      "@", "A", "B", "C", "D", "E", "F", "G", "H", "I", "J", "K", "L", "M", "N", "O",
      "P", "Q", "R", "S", "T", "U", "V", "W", "X", "Y", "Z", "[", "\\", "]", "^", "_",
      "GRAVE", "a", "b", "c", "d", "e", "f", "g", "h", "i", "j", "k", "l", "m", "n", "o",
      "p", "q", "r", "s", "t", "u", "v", "w", "x", "y", "z", "{", "|", "}", "~">>

\* ord(c) for a printable ASCII character.
CharCode == [c \in {AsciiTable[i] : i \in DOMAIN AsciiTable} |->
                31 + CHOOSE i \in DOMAIN AsciiTable : AsciiTable[i] = c]

Ord(c) == CharCode[c]

\* a < b for two str values: lexicographic on code points.
RECURSIVE StrLTFrom(_, _, _)
StrLTFrom(a, b, i) ==
    IF i > Len(b) THEN FALSE
    ELSE IF i > Len(a) THEN TRUE
    ELSE IF a[i] # b[i] THEN Ord(a[i]) < Ord(b[i])
    ELSE StrLTFrom(a, b, i + 1)

StrLT(a, b) == StrLTFrom(a, b, 1)

StrGE(a, b) == ~StrLT(a, b)

\* The characters of the date strings the model uses.
Chars(s) ==
    CASE s = "2025-11-01" -> <<"2","0","2","5","-","1","1","-","0","1">>
      [] s = "2025-12-31" -> <<"2","0","2","5","-","1","2","-","3","1">>
      [] s = "2026-01-01" -> <<"2","0","2","6","-","0","1","-","0","1">>
      [] s = "2026-01-02" -> <<"2","0","2","6","-","0","1","-","0","2">>
      [] s = "2025-12-30" -> <<"2","0","2","5","-","1","2","-","3","0">>
      [] s = "2025-12-01" -> <<"2","0","2","5","-","1","2","-","0","1">>
      [] s = "2026-02-01" -> <<"2","0","2","6","-","0","2","-","0","1">>
      [] s = "2025-12" -> <<"2","0","2","5","-","1","2">>
      [] s = "2026-01" -> <<"2","0","2","6","-","0","1">>
      [] s = "archive" -> <<"a","r","c","h","i","v","e">>
      [] s = "live" -> <<"l","i","v","e">>

ARCHIVE_CUTOFF_DATE == "2026-01-01"

\* Dates a caller may pass as a range bound.
RangeDates == {"2025-11-01", "2025-12-31", "2026-01-01", "2026-01-02"}

(***************************************************************************)
(* DBTargets and DBRouter.pick_targets                                     *)
(***************************************************************************)
DBTargets(use_archive, use_live) ==
    [use_archive |-> use_archive, use_live |-> use_live]

need_union(t) == t.use_archive /\ t.use_live

TargetsUseLiveStrict(t_from, t_to) ==
    LET cutoff == Chars(ARCHIVE_CUTOFF_DATE) IN
    IF t_from = None /\ t_to = None THEN DBTargets(TRUE, TRUE)
    ELSE IF t_from = None THEN DBTargets(TRUE, StrLT(cutoff, Chars(t_to)))
    ELSE IF t_to = None THEN DBTargets(StrLT(Chars(t_from), cutoff), TRUE)
    ELSE DBTargets(StrLT(Chars(t_from), cutoff), StrLT(cutoff, Chars(t_to)))

TargetsArchiveInclusive(t_from, t_to) ==
    LET cutoff == Chars(ARCHIVE_CUTOFF_DATE) IN
    IF t_from = None /\ t_to = None THEN DBTargets(TRUE, TRUE)
    ELSE IF t_from = None THEN DBTargets(TRUE, StrGE(Chars(t_to), cutoff))
    ELSE IF t_to = None THEN DBTargets(~StrLT(cutoff, Chars(t_from)), TRUE)
    ELSE DBTargets(~StrLT(cutoff, Chars(t_from)), StrGE(Chars(t_to), cutoff))

TargetsByDateFrom(t_from, t_to) ==
    LET cutoff == Chars(ARCHIVE_CUTOFF_DATE) IN
    IF t_from = None /\ t_to = None THEN DBTargets(TRUE, TRUE)
    ELSE IF t_from = None THEN DBTargets(TRUE, StrGE(Chars(t_to), cutoff))
    ELSE IF t_to = None THEN DBTargets(StrLT(Chars(t_from), cutoff), TRUE)
    ELSE DBTargets(StrLT(Chars(t_from), cutoff), StrGE(Chars(t_from), cutoff))

pick_targets(t_from, t_to) ==
    LET cutoff == Chars(ARCHIVE_CUTOFF_DATE) IN
    IF t_from = None /\ t_to = None THEN DBTargets(TRUE, TRUE)
    ELSE IF t_from = None THEN DBTargets(TRUE, StrGE(Chars(t_to), cutoff))
    ELSE IF t_to = None THEN DBTargets(StrLT(Chars(t_from), cutoff), TRUE)
    ELSE DBTargets(StrLT(Chars(t_from), cutoff), StrGE(Chars(t_to), cutoff))

(***************************************************************************)
(* SQL text.  A statement is the sequence of the fragments the f-strings   *)
(* of the source concatenate: the literal pieces and the substituted       *)
(* arguments, in order.                                                    *)
(***************************************************************************)
\* An optional int (limit: int | None) is a sequence of no or one number.
NoLimit == <<>>

DigitStr == <<"0", "1", "2", "3", "4", "5", "6", "7", "8", "9">>

\* str(int(n)) for n >= 0.
RECURSIVE IntStr(_)
IntStr(n) == IF n < 10 THEN DigitStr[n + 1]
             ELSE IntStr(n \div 10) \o DigitStr[(n % 10) + 1]

Count(seq, tok) == Cardinality({i \in DOMAIN seq : seq[i] = tok})

UNION_ALL == " UNION ALL "
SRC_ARCHIVE == "'archive' AS source, "
SRC_LIVE == "'live' AS source, "
FROM_ARCHIVE == " FROM archive.production_records WHERE "
FROM_LIVE == " FROM production_records WHERE "
ORDER_DEFAULT == "production_date DESC, source DESC, id DESC"

BuildUnionSqlLiveLiteralTwice(select_columns, where_clause, t, order_by, limit, include_source) ==
    LET source_col_live == IF include_source THEN SRC_LIVE ELSE ""
        archive_sql == <<"SELECT ", source_col_live, select_columns, FROM_ARCHIVE>>
                       \o where_clause \o <<" AND ", "production_date < ?">>
        live_sql == <<"SELECT ", source_col_live, select_columns, FROM_LIVE>>
                    \o where_clause \o <<" AND ", "production_date >= ?">>
        parts == (IF t.use_archive /\ archive_exists THEN <<archive_sql>> ELSE <<>>)
                 \o (IF t.use_live THEN <<live_sql>> ELSE <<>>)
        joined == IF Len(parts) = 2 THEN parts[1] \o <<UNION_ALL>> \o parts[2]
                  ELSE IF Len(parts) = 1 THEN parts[1]
                  ELSE <<"SELECT ", source_col_live, select_columns, FROM_LIVE, "1=0">>
        ordered == IF order_by # "" THEN <<"SELECT * FROM (">> \o joined \o <<") ORDER BY ", order_by>>
                   ELSE joined
    IN  [sql |-> IF limit # NoLimit THEN ordered \o <<" LIMIT ", IntStr(limit[1])>> ELSE ordered,
         params_doubled |-> Len(parts) = 2]

\* build_union_sql whose statement for no store selects every live row.
BuildUnionSqlAllRows(select_columns, where_clause, t, order_by, limit, include_source) ==
    LET source_col_archive == IF include_source THEN SRC_ARCHIVE ELSE ""
        source_col_live == IF include_source THEN SRC_LIVE ELSE ""
        archive_sql == <<"SELECT ", source_col_archive, select_columns, FROM_ARCHIVE>>
                       \o where_clause \o <<" AND ", "production_date < ?">>
        live_sql == <<"SELECT ", source_col_live, select_columns, FROM_LIVE>>
                    \o where_clause \o <<" AND ", "production_date >= ?">>
        parts == (IF t.use_archive /\ archive_exists THEN <<archive_sql>> ELSE <<>>)
                 \o (IF t.use_live THEN <<live_sql>> ELSE <<>>)
        joined == IF Len(parts) = 2 THEN parts[1] \o <<UNION_ALL>> \o parts[2]
                  ELSE IF Len(parts) = 1 THEN parts[1]
                  ELSE <<"SELECT ", source_col_live, select_columns, FROM_LIVE, "1=1">>
        ordered == IF order_by # "" THEN <<"SELECT * FROM (">> \o joined \o <<") ORDER BY ", order_by>>
                   ELSE joined
    IN  [sql |-> IF limit # NoLimit THEN ordered \o <<" LIMIT ", IntStr(limit[1])>> ELSE ordered,
         params_doubled |-> Len(parts) = 2]

\* DBRouter.build_union_sql; reads ARCHIVE_DB_FILE.exists() as the code does.
build_union_sql(select_columns, where_clause, t, order_by, limit, include_source) ==
    LET source_col_archive == IF include_source THEN SRC_ARCHIVE ELSE ""
        source_col_live == IF include_source THEN SRC_LIVE ELSE ""
        archive_sql == <<"SELECT ", source_col_archive, select_columns, FROM_ARCHIVE>>
                       \o where_clause \o <<" AND ", "production_date < ?">>
        live_sql == <<"SELECT ", source_col_live, select_columns, FROM_LIVE>>
                    \o where_clause \o <<" AND ", "production_date >= ?">>
        parts == (IF t.use_archive /\ archive_exists THEN <<archive_sql>> ELSE <<>>)
                 \o (IF t.use_live THEN <<live_sql>> ELSE <<>>)
        joined == IF Len(parts) = 2 THEN parts[1] \o <<UNION_ALL>> \o parts[2]
                  ELSE IF Len(parts) = 1 THEN parts[1]
                  ELSE <<"SELECT ", source_col_live, select_columns, FROM_LIVE, "1=0">>
        ordered == IF order_by # "" THEN <<"SELECT * FROM (">> \o joined \o <<") ORDER BY ", order_by>>
                   ELSE joined
    IN  [sql |-> IF limit # NoLimit THEN ordered \o <<" LIMIT ", IntStr(limit[1])>> ELSE ordered,
         params_doubled |-> Len(parts) = 2]

\* build_query_params that does not look whether the archive file exists.
BuildQueryParamsWithoutFileTest(base_params, t, cutoff) ==
    (IF t.use_archive THEN base_params \o <<cutoff>> ELSE <<>>)
    \o (IF t.use_live THEN base_params \o <<cutoff>> ELSE <<>>)

\* DBRouter.build_query_params
build_query_params(base_params, t, cutoff) ==
    (IF t.use_archive /\ archive_exists THEN base_params \o <<cutoff>> ELSE <<>>)
    \o (IF t.use_live THEN base_params \o <<cutoff>> ELSE <<>>)

BuildAggregationSqlLiveAfterCutoff(inner_select, inner_where, outer_select, outer_group_by, t, outer_order_by, limit) ==
    LET group_clause == IF outer_group_by # "" THEN <<" GROUP BY ", outer_group_by>> ELSE <<>>
        archive_sql == <<"SELECT ", inner_select, FROM_ARCHIVE>> \o inner_where
                       \o <<" AND ", "production_date < ?">> \o group_clause
        live_sql == <<"SELECT ", inner_select, FROM_LIVE>> \o inner_where
                    \o <<" AND ", "production_date > ?">> \o group_clause
        parts == (IF t.use_archive /\ archive_exists THEN <<archive_sql>> ELSE <<>>)
                 \o (IF t.use_live THEN <<live_sql>> ELSE <<>>)
        union_sql == IF Len(parts) = 2 THEN parts[1] \o <<UNION_ALL>> \o parts[2]
                     ELSE IF Len(parts) = 1 THEN parts[1]
                     ELSE <<"SELECT ", inner_select, FROM_LIVE, "1=0">> \o group_clause
        merged == <<"SELECT ", outer_select, " FROM (">> \o union_sql \o <<")">> \o group_clause
        ordered == IF outer_order_by # "" THEN merged \o <<" ORDER BY ", outer_order_by>>
                   ELSE merged
    IN  [sql |-> IF limit # NoLimit THEN ordered \o <<" LIMIT ", IntStr(limit[1])>> ELSE ordered,
         params_doubled |-> Len(parts) = 2]

\* build_aggregation_sql that does not look whether the archive file exists.
BuildAggregationSqlWithoutFileTest(inner_select, inner_where, outer_select, outer_group_by, t, outer_order_by, limit) ==
    LET group_clause == IF outer_group_by # "" THEN <<" GROUP BY ", outer_group_by>> ELSE <<>>
        archive_sql == <<"SELECT ", inner_select, FROM_ARCHIVE>> \o inner_where
                       \o <<" AND ", "production_date < ?">> \o group_clause
        live_sql == <<"SELECT ", inner_select, FROM_LIVE>> \o inner_where
                    \o <<" AND ", "production_date >= ?">> \o group_clause
        parts == (IF t.use_archive THEN <<archive_sql>> ELSE <<>>)
                 \o (IF t.use_live THEN <<live_sql>> ELSE <<>>)
        union_sql == IF Len(parts) = 2 THEN parts[1] \o <<UNION_ALL>> \o parts[2]
                     ELSE IF Len(parts) = 1 THEN parts[1]
                     ELSE <<"SELECT ", inner_select, FROM_LIVE, "1=0">> \o group_clause
        merged == <<"SELECT ", outer_select, " FROM (">> \o union_sql \o <<")">> \o group_clause
        ordered == IF outer_order_by # "" THEN merged \o <<" ORDER BY ", outer_order_by>>
                   ELSE merged
    IN  [sql |-> IF limit # NoLimit THEN ordered \o <<" LIMIT ", IntStr(limit[1])>> ELSE ordered,
         params_doubled |-> Len(parts) = 2]

\* DBRouter.build_aggregation_sql ("pre-aggregate then merge")
build_aggregation_sql(inner_select, inner_where, outer_select, outer_group_by, t, outer_order_by, limit) ==
    LET group_clause == IF outer_group_by # "" THEN <<" GROUP BY ", outer_group_by>> ELSE <<>>
        archive_sql == <<"SELECT ", inner_select, FROM_ARCHIVE>> \o inner_where
                       \o <<" AND ", "production_date < ?">> \o group_clause
        live_sql == <<"SELECT ", inner_select, FROM_LIVE>> \o inner_where
                    \o <<" AND ", "production_date >= ?">> \o group_clause
        parts == (IF t.use_archive /\ archive_exists THEN <<archive_sql>> ELSE <<>>)
                 \o (IF t.use_live THEN <<live_sql>> ELSE <<>>)
        union_sql == IF Len(parts) = 2 THEN parts[1] \o <<UNION_ALL>> \o parts[2]
                     ELSE IF Len(parts) = 1 THEN parts[1]
                     ELSE <<"SELECT ", inner_select, FROM_LIVE, "1=0">> \o group_clause
        merged == <<"SELECT ", outer_select, " FROM (">> \o union_sql \o <<")">> \o group_clause
        ordered == IF outer_order_by # "" THEN merged \o <<" ORDER BY ", outer_order_by>>
                   ELSE merged
    IN  [sql |-> IF limit # NoLimit THEN ordered \o <<" LIMIT ", IntStr(limit[1])>> ELSE ordered,
         params_doubled |-> Len(parts) = 2]

(***************************************************************************)
(* The stores and the execution of a built statement.  A store is the      *)
(* sequence of its rows, the row id being the position (ids are unique     *)
(* within a store and repeat across the two stores).  The statement is     *)
(* executed from its fragments: every branch reads the table its FROM      *)
(* fragment names, filters by its WHERE conditions and binds the "?"       *)
(* placeholders to the parameter list positionally, as sqlite3 does.       *)
(***************************************************************************)
Table(rows) ==
    {[id |-> i, production_date |-> rows[i].production_date,
      item_code |-> rows[i].item_code, good_quantity |-> rows[i].good_quantity] :
        i \in DOMAIN rows}

KEYSET == "(production_date < ? OR (production_date = ? AND source < ?) OR (production_date = ? AND source = ? AND id < ?))"

\* Number of "?" placeholders of a WHERE fragment.
NumParams(cond) ==
    CASE cond \in {"1=1", "1=0", " AND "} -> 0
      [] cond = KEYSET -> 6
      [] OTHER -> 1

RECURSIVE ParamCount(_)
ParamCount(conds) ==
    IF conds = <<>> THEN 0 ELSE NumParams(Head(conds)) + ParamCount(Tail(conds))

\* One WHERE condition on row r of the branch whose source literal is source.
CondHolds(cond, ps, r, source) ==
    CASE cond = "1=1" -> TRUE
      [] cond = "1=0" -> FALSE
      [] cond = " AND " -> TRUE
      [] cond = "production_date >= ?" -> StrGE(Chars(r.production_date), ps[1])
      [] cond = "production_date < ?" -> StrLT(Chars(r.production_date), ps[1])
      [] cond = "production_date > ?" -> StrLT(ps[1], Chars(r.production_date))
      [] cond = "item_code = ?" -> r.item_code = ps[1]
      [] cond = "substr(production_date, 1, 7) = ?" ->
            SubSeq(Chars(r.production_date), 1, 7) = ps[1]
      [] cond = KEYSET ->
            \/ StrLT(Chars(r.production_date), ps[1])
            \/ (Chars(r.production_date) = ps[2] /\ StrLT(Chars(source), ps[3]))
            \/ (Chars(r.production_date) = ps[4] /\ Chars(source) = ps[5] /\ r.id < ps[6])

RECURSIVE WhereHolds(_, _, _, _)
WhereHolds(conds, ps, r, source) ==
    IF conds = <<>> THEN TRUE
    ELSE LET n == NumParams(Head(conds)) IN
         /\ CondHolds(Head(conds), SubSeq(ps, 1, n), r, source)
         /\ WhereHolds(Tail(conds), SubSeq(ps, n + 1, Len(ps)), r, source)

\* The branches of a statement: the positions of its FROM fragments.
FromAt(sql) == {i \in DOMAIN sql : sql[i] \in {FROM_ARCHIVE, FROM_LIVE}}

Terminators == {UNION_ALL, " GROUP BY ", ")", ") ORDER BY ", " ORDER BY ", " LIMIT "}

\* The WHERE fragments of the branch whose FROM fragment is at position i.
BranchWhere(sql, i) ==
    LET stops == {j \in DOMAIN sql : j > i /\ sql[j] \in Terminators}
        last == IF stops = {} THEN Len(sql)
                ELSE (CHOOSE j \in stops : \A k \in stops : j <= k) - 1
    IN  SubSeq(sql, i + 1, last)

\* The parameters bound in the branch at i: those after the earlier branches'.
BranchParams(sql, params, i) ==
    LET RECURSIVE Before(_)
        Before(S) == IF S = {} THEN 0
                     ELSE LET j == CHOOSE j \in S : TRUE
                          IN  ParamCount(BranchWhere(sql, j)) + Before(S \ {j})
        skip == Before({j \in FromAt(sql) : j < i})
    IN  SubSeq(params, skip + 1, skip + ParamCount(BranchWhere(sql, i)))

BranchSource(sql, i) ==
    IF sql[i - 2] = SRC_ARCHIVE THEN "archive"
    ELSE IF sql[i - 2] = SRC_LIVE THEN "live" ELSE None

StoreRows(sql, i) == IF sql[i] = FROM_ARCHIVE THEN Table(archive_rows) ELSE Table(live_rows)

\* Rows a branch selects.
BranchRows(sql, params, i) ==
    LET where == BranchWhere(sql, i)
        ps == BranchParams(sql, params, i)
        source == BranchSource(sql, i)
    IN  {r \in StoreRows(sql, i) : WhereHolds(where, ps, r, source)}

\* sqlite3 raises: archive.production_records without the archive attached, or
\* a parameter list whose length is not the number of placeholders.
ExecFails(sql, params, attached) ==
    \/ \E i \in FromAt(sql) : sql[i] = FROM_ARCHIVE /\ ~attached
    \/ LET RECURSIVE Total(_)
           Total(S) == IF S = {} THEN 0
                       ELSE LET j == CHOOSE j \in S : TRUE
                            IN  ParamCount(BranchWhere(sql, j)) + Total(S \ {j})
       IN  Total(FromAt(sql)) # Len(params)

\* DBRouter.get_connection attaches the archive iff asked to and the file exists.
Attached(use_archive) == use_archive /\ archive_exists

(***************************************************************************)
(* Aggregates.  SUM and COUNT are integers; a NULL-able value is a         *)
(* sequence of no or one element; AVG is kept exact as <<numerator,        *)
(* denominator>> (sqlite3 computes it in floating point).                  *)
(***************************************************************************)
NULL == <<>>

RECURSIVE FnSum(_)
FnSum(f) ==
    IF DOMAIN f = {} THEN 0
    ELSE LET x == CHOOSE x \in DOMAIN f : TRUE
         IN  f[x] + FnSum([y \in DOMAIN f \ {x} |-> f[y]])

SetSum(S, F(_)) == FnSum([x \in S |-> F(x)])

RatEq(p, q) == p[1] * q[2] = q[1] * p[2]

\* Sum of fractions over the common denominator.
RECURSIVE FnRatSum(_)
FnRatSum(f) ==
    IF DOMAIN f = {} THEN <<0, 1>>
    ELSE LET x == CHOOSE x \in DOMAIN f : TRUE
             rest == FnRatSum([y \in DOMAIN f \ {x} |-> f[y]])
         IN  <<f[x][1] * rest[2] + rest[1] * f[x][2], f[x][2] * rest[2]>>

RatSum(S, F(_)) == FnRatSum([x \in S |-> F(x)])

\* The value of the GROUP BY expression on a row.
KeyOf(group_by, r) ==
    CASE group_by = "" -> <<>>
      [] group_by = "year_month" -> <<SubSeq(Chars(r.production_date), 1, 7)>>
      [] group_by = "item_code" -> <<r.item_code>>
      [] group_by = "year_month, item_code" ->
            <<SubSeq(Chars(r.production_date), 1, 7), r.item_code>>

Quantity(r) == r.good_quantity

\* SUM(good_quantity) AS total, COUNT(*) AS cnt, AVG(good_quantity) AS avg_val
Aggregate(rows) ==
    [total |-> IF rows = {} THEN NULL ELSE <<SetSum(rows, Quantity)>>,
     cnt |-> Cardinality(rows),
     avg_val |-> IF rows = {} THEN NULL ELSE <<SetSum(rows, Quantity), Cardinality(rows)>>]

GroupBy(sql) ==
    IF \E i \in DOMAIN sql : sql[i] = " GROUP BY "
    THEN sql[(CHOOSE i \in DOMAIN sql : sql[i] = " GROUP BY ") + 1]
    ELSE ""

\* The rows of one inner (per-store) aggregation: one per group, or exactly
\* one when there is no GROUP BY.
PartialRows(sql, params, i) ==
    LET rows == BranchRows(sql, params, i)
        g == GroupBy(sql)
        keys == IF g = "" THEN {<<>>} ELSE {KeyOf(g, r) : r \in rows}
    IN  {[branch |-> i, key |-> k,
          agg |-> Aggregate({r \in rows : KeyOf(g, r) = k})] : k \in keys}

PartTotal(p) == IF p.agg.total = NULL THEN 0 ELSE p.agg.total[1]
PartCnt(p) == p.agg.cnt
PartAvg(p) == p.agg.avg_val

\* Outer select lists that merge the partial averages with AVG(avg_val).
OUTER_SUMMARY == "SUM(total) AS total, SUM(cnt) AS count, AVG(avg_val) AS average"
OUTER_MONTHLY == "year_month, SUM(total) AS total_production, SUM(cnt) AS batch_count, AVG(avg_val) AS avg_batch_size"
OUTER_MONTHLY_ITEM == "year_month, item_code, MAX(item_name) AS item_name, SUM(total) AS total_production, SUM(cnt) AS batch_count, AVG(avg_val) AS avg_batch_size"
OUTER_BY_ITEM == "item_code, MAX(item_name) AS item_name, SUM(total) AS total_production, SUM(cnt) AS batch_count"

MergeCountsRows(parts, outer_select) ==
    LET nonnull == {p \in parts : p.agg.total # NULL} IN
    [total |-> IF nonnull = {} THEN NULL ELSE <<SetSum(nonnull, PartTotal)>>,
     count |-> Cardinality(parts),
     average |-> NULL]

\* The outer (merge) aggregation of one group of partial rows:
\* SUM(total), SUM(cnt) and, where selected, AVG(avg_val).
Merge(parts, outer_select) ==
    LET nonnull == {p \in parts : p.agg.total # NULL}
        s == RatSum(nonnull, PartAvg)
    IN  [total |-> IF nonnull = {} THEN NULL ELSE <<SetSum(nonnull, PartTotal)>>,
         count |-> SetSum(parts, PartCnt),
         average |-> IF outer_select \in {OUTER_SUMMARY, OUTER_MONTHLY, OUTER_MONTHLY_ITEM}
                        /\ nonnull # {}
                     THEN <<s[1], s[2] * Cardinality(nonnull)>> ELSE NULL]

\* Execution of a statement built by build_aggregation_sql.
ExecAggregation(sql, params, attached) ==
    IF ExecFails(sql, params, attached) THEN [ok |-> FALSE, rows |-> {}]
    ELSE LET parts == UNION {PartialRows(sql, params, i) : i \in FromAt(sql)}
             keys == IF GroupBy(sql) = "" THEN {<<>>} ELSE {p.key : p \in parts}
         IN  [ok |-> TRUE,
              rows |-> {[key |-> k, out |-> Merge({p \in parts : p.key = k}, sql[2])] :
                          k \in keys}]

(***************************************************************************)
(* Cursor tokens (api/main.py).  Here a str is the sequence of its code    *)
(* points and a bytes object the sequence of its bytes, both integers.     *)
(***************************************************************************)
\* Code points of a str of the model, and back.
Codes(s) == [i \in DOMAIN Chars(s) |-> Ord(Chars(s)[i])]

Text(cps) == [i \in DOMAIN cps |-> AsciiTable[cps[i] - 31]]

\* The element of a singleton set.  In Only({e : v \in {d}}) the value d is
\* computed once, however often e uses v.
Only(S) == CHOOSE e \in S : TRUE

\* A sequence given as a function, as the tuple of its elements.
Tuple(f) == f \o <<>>

\* The concatenation of the sequences ss[1], ss[2], ...
RECURSIVE Concat(_)
Concat(ss) == Only({IF s = <<>> THEN <<>> ELSE Head(s) \o Concat(Tail(s)) : s \in {ss}})

\* str.encode(): UTF-8; a surrogate raises UnicodeEncodeError.
Utf8Encode(cps) ==
    LET Enc(c) ==
            IF c < 128 THEN <<c>>
            ELSE IF c < 2048 THEN <<192 + (c \div 64), 128 + (c % 64)>>
            ELSE IF c < 65536
                 THEN <<224 + (c \div 4096), 128 + ((c \div 64) % 64), 128 + (c % 64)>>
            ELSE <<240 + (c \div 262144), 128 + ((c \div 4096) % 64),
                   128 + ((c \div 64) % 64), 128 + (c % 64)>>
    IN  [ok |-> \A i \in DOMAIN cps : cps[i] \notin 55296..57343,
         bytes |-> IF \A i \in DOMAIN cps : cps[i] < 128 THEN cps
                   ELSE Concat([i \in DOMAIN cps |-> Enc(cps[i])])]

\* The smallest element of a set of numbers, and its k-th in increasing order.
Min(S) == Only({CHOOSE p \in T : \A q \in T : p <= q : T \in {S}})

Nth(S, k) == CHOOSE p \in S : Cardinality({q \in S : q <= p}) = k

\* bytes.decode(): strict UTF-8; an ill-formed sequence raises
\* UnicodeDecodeError.  Every byte that is not a continuation byte starts a
\* character and is followed by exactly the continuation bytes it announces.
Utf8Decode(b) ==
    LET IsCont(i) == i \in DOMAIN b /\ b[i] \in 128..191
        Trail(c) == IF c < 128 THEN 0
                    ELSE IF c \in 194..223 THEN 1
                    ELSE IF c \in 224..239 THEN 2
                    ELSE IF c \in 240..244 THEN 3 ELSE -1
        WellFormed(i) ==
            /\ Trail(b[i]) >= 0
            /\ \A k \in 1..Trail(b[i]) : IsCont(i + k)
            /\ b[i] = 224 => b[i + 1] >= 160
            /\ b[i] = 237 => b[i + 1] <= 159
            /\ b[i] = 240 => b[i + 1] >= 144
            /\ b[i] = 244 => b[i + 1] <= 143
        Owned(starts, i) ==
            \E j \in starts :
                j < i /\ i - j <= Trail(b[j]) /\ \A k \in (j + 1)..i : IsCont(k)
        Cp(i) == CASE Trail(b[i]) = 0 -> b[i]
                   [] Trail(b[i]) = 1 -> (b[i] - 192) * 64 + (b[i + 1] - 128)
                   [] Trail(b[i]) = 2 -> (b[i] - 224) * 4096 + (b[i + 1] - 128) * 64
                                           + (b[i + 2] - 128)
                   [] Trail(b[i]) = 3 -> (b[i] - 240) * 262144 + (b[i + 1] - 128) * 4096
                                           + (b[i + 2] - 128) * 64 + (b[i + 3] - 128)
    IN  IF \A i \in DOMAIN b : b[i] < 128 THEN [ok |-> TRUE, text |-> b]
        ELSE Only({
            IF /\ \A i \in starts : WellFormed(i)
               /\ \A i \in DOMAIN b : IsCont(i) => Owned(starts, i)
            THEN [ok |-> TRUE,
                  text |-> Tuple([k \in 1..Cardinality(starts) |-> Cp(Nth(starts, k))])]
            ELSE [ok |-> FALSE, text |-> <<>>] :
            starts \in {{i \in DOMAIN b : ~IsCont(i)}}})

\* The URL-safe base64 alphabet: A-Z a-z 0-9 - _
B64Char(v) ==
    IF v < 26 THEN 65 + v
    ELSE IF v < 52 THEN 97 + (v - 26)
    ELSE IF v < 62 THEN 48 + (v - 52)
    ELSE IF v = 62 THEN 45 ELSE 95

\* Value of a character for decoding, 64 if it is not in the alphabet.
\* urlsafe_b64decode translates - and _ to + and /, which stay accepted.
B64Val(c) ==
    IF c \in 65..90 THEN c - 65
    ELSE IF c \in 97..122 THEN c - 97 + 26
    ELSE IF c \in 48..57 THEN c - 48 + 52
    ELSE IF c \in {45, 43} THEN 62
    ELSE IF c \in {95, 47} THEN 63 ELSE 64

\* base64.urlsafe_b64encode: every three bytes give four characters, the
\* last quantum is padded with "=".
urlsafe_b64encode(b) ==
    LET n == Len(b)
        B(i) == IF i <= n THEN b[i] ELSE 0
        Ch(k) == LET g == 3 * ((k - 1) \div 4)
                     r == (k - 1) % 4
                 IN  CASE r = 0 -> B64Char(B(g + 1) \div 4)
                       [] r = 1 -> B64Char((B(g + 1) % 4) * 16 + (B(g + 2) \div 16))
                       [] r = 2 -> IF g + 2 <= n
                                   THEN B64Char((B(g + 2) % 16) * 4 + (B(g + 3) \div 64))
                                   ELSE 61
                       [] r = 3 -> IF g + 3 <= n THEN B64Char(B(g + 3) % 64) ELSE 61
    IN  Tuple([k \in 1..(4 * ((n + 2) \div 3)) |-> Ch(k)])

IsB64(c) == c = 61 \/ B64Val(c) < 64

IsB64Data(c) == c # 61

\* The "=" of sig that end the decoding: one that completes a quantum (the
\* first one after three characters of a quantum, the second one after two).
B64Stops(sig) ==
    LET DataBefore(p) == Cardinality({k \in 1..(p - 1) : sig[k] # 61})
    IN  {p \in DOMAIN sig :
            /\ sig[p] = 61
            /\ \/ DataBefore(p) % 4 = 3
               \/ DataBefore(p) % 4 = 2 /\ p > 1 /\ sig[p - 1] = 61}

\* The bytes of the characters data, six bits each.
B64Bytes(data) ==
    LET m == Len(data)
        V(i) == B64Val(data[i])
        Byte(n) == LET g == 4 * (n \div 3)
                       r == n % 3
                   IN  CASE r = 0 -> V(g + 1) * 4 + (V(g + 2) \div 16)
                         [] r = 1 -> (V(g + 2) % 16) * 16 + (V(g + 3) \div 4)
                         [] r = 2 -> (V(g + 3) % 4) * 64 + V(g + 4)
        nbytes == (m \div 4) * 3 + (IF m % 4 = 2 THEN 1 ELSE IF m % 4 = 3 THEN 2 ELSE 0)
    IN  Tuple([n \in 1..nbytes |-> Byte(n - 1)])

\* base64.urlsafe_b64decode: binascii.a2b_base64 in its default, non-strict
\* mode.  Characters outside the alphabet are skipped; decoding stops at the
\* "=" that completes a quantum; without such a stop a last quantum that is
\* not complete raises binascii.Error.
urlsafe_b64decode(s) ==
    Only({Only({Only({
        IF stops = {} /\ Len(data) % 4 # 0 THEN [ok |-> FALSE, bytes |-> <<>>]
        ELSE [ok |-> TRUE, bytes |-> B64Bytes(data)] :
        data \in {SelectSeq(SubSeq(sig, 1, (IF stops = {} THEN Len(sig) + 1 ELSE Min(stops)) - 1),
                            IsB64Data)}}) :
        stops \in {B64Stops(sig)}}) :
        sig \in {SelectSeq(s, IsB64)}})

\* json.dumps of a str (ensure_ascii): quote, backslash and everything that
\* is not printable ASCII are escaped.
Hex4(c) ==
    LET h(v) == IF v < 10 THEN 48 + v ELSE 87 + v
    IN  <<h(c \div 4096), h((c \div 256) % 16), h((c \div 16) % 16), h(c % 16)>>

JsonEscape(c) ==
    CASE c = 34 -> <<92, 34>>
      [] c = 92 -> <<92, 92>>
      [] c = 10 -> <<92, 110>>
      [] c = 13 -> <<92, 114>>
      [] c = 9 -> <<92, 116>>
      [] c = 8 -> <<92, 98>>
      [] c = 12 -> <<92, 102>>
      [] c \in 32..126 \ {34, 92} -> <<c>>
      [] c > 65535 -> <<92, 117>> \o Hex4(55296 + ((c - 65536) \div 1024))
                      \o <<92, 117>> \o Hex4(56320 + ((c - 65536) % 1024))
      [] OTHER -> <<92, 117>> \o Hex4(c)

JsonStr(cps) == <<34>> \o Concat([i \in DOMAIN cps |-> JsonEscape(cps[i])]) \o <<34>>

RECURSIVE Digits(_)
Digits(n) == IF n < 10 THEN <<48 + n>> ELSE Append(Digits(n \div 10), 48 + (n % 10))

JsonInt(n) == IF n < 0 THEN <<45>> \o Digits(-n) ELSE Digits(n)

\* json.dumps({"d": production_date, "id": record_id, "src": source})
json_dumps(obj) ==
    <<123, 34, 100, 34, 58, 32>> \o JsonStr(obj.d)
    \o <<44, 32, 34, 105, 100, 34, 58, 32>> \o JsonInt(obj.id)
    \o <<44, 32, 34, 115, 114, 99, 34, 58, 32>> \o JsonStr(obj.src)
    \o <<125>>

\* A decoded JSON value: its Python type t, its content s (the code points
\* of a str, the number of an int, the literal of a float) and, for a dict
\* or list, its members in order (k is the key; a nested dict or list is
\* kept as its type only).
JsonValue(end, t, s, members) ==
    [ok |-> TRUE, end |-> end, t |-> t, s |-> s, members |-> members]

JsonFail == [ok |-> FALSE, end |-> 0, t |-> "", s |-> <<>>, members |-> <<>>]

\* The first position from i on that holds no whitespace.
SkipWs(t, i) == Min({p \in i..Len(t) : t[p] \notin {32, 9, 10, 13}} \cup {Len(t) + 1})

IsDigit(c) == c \in 48..57

HexVal(c) ==
    IF c \in 48..57 THEN c - 48
    ELSE IF c \in 97..102 THEN c - 87
    ELSE IF c \in 65..70 THEN c - 55 ELSE 16

\* The four hex digits at i..i+3, or -1.
Hex4At(t, i) ==
    IF i + 3 <= Len(t) /\ \A k \in 0..3 : HexVal(t[i + k]) < 16
    THEN HexVal(t[i]) * 4096 + HexVal(t[i + 1]) * 256 + HexVal(t[i + 2]) * 16 + HexVal(t[i + 3])
    ELSE -1

\* The escape whose backslash is at p: the code point cp it stands for (-1:
\* none) and the position next after it.  \uXXXX followed by a low
\* surrogate \uXXXX is one character.
ScanEscape(t, p) ==
    LET simple == (34 :> 34) @@ (92 :> 92) @@ (47 :> 47) @@ (98 :> 8)
                  @@ (102 :> 12) @@ (110 :> 10) @@ (114 :> 13) @@ (116 :> 9)
        esc == IF p + 1 <= Len(t) THEN t[p + 1] ELSE 0
    IN  IF esc # 117
        THEN [cp |-> IF esc \in DOMAIN simple THEN simple[esc] ELSE -1, next |-> p + 2]
        ELSE Only({Only({
                IF u2 \in 56320..57343
                THEN [cp |-> 65536 + (u1 - 55296) * 1024 + (u2 - 56320), next |-> p + 12]
                ELSE [cp |-> u1, next |-> p + 6] :
                u2 \in {IF u1 \in 55296..56319 /\ p + 7 <= Len(t)
                           /\ t[p + 6] = 92 /\ t[p + 7] = 117
                        THEN Hex4At(t, p + 8) ELSE -1}}) :
                u1 \in {Hex4At(t, p + 2)}})

\* json.decoder.scanstring (strict) from the character after the opening
\* quote: plain characters up to the next quote, backslash or control
\* character, then the closing quote or one escape.
RECURSIVE ScanString(_, _)
ScanString(t, i) ==
    Only({
        IF specials = {} THEN [ok |-> FALSE, end |-> 0, s |-> <<>>]
        ELSE Only({
            IF t[p] = 34 THEN [ok |-> TRUE, end |-> p + 1, s |-> SubSeq(t, i, p - 1)]
            ELSE IF t[p] < 32 THEN [ok |-> FALSE, end |-> 0, s |-> <<>>]
            ELSE Only({
                IF e.cp = -1 THEN [ok |-> FALSE, end |-> 0, s |-> <<>>]
                ELSE Only({[ok |-> rest.ok, end |-> rest.end,
                            s |-> SubSeq(t, i, p - 1) \o <<e.cp>> \o rest.s] :
                           rest \in {ScanString(t, e.next)}}) :
                e \in {ScanEscape(t, p)}}) :
            p \in {Min(specials)}}) :
        specials \in {{p \in i..Len(t) : t[p] \in {34, 92} \/ t[p] < 32}}})

\* The first position from i on that holds no digit.
DigitsEnd(t, i) == Min({p \in i..Len(t) : ~IsDigit(t[p])} \cup {Len(t) + 1})

RECURSIVE DigitsValue(_)
DigitsValue(ds) ==
    Only({IF d = <<>> THEN 0
          ELSE 10 * DigitsValue(SubSeq(d, 1, Len(d) - 1)) + (d[Len(d)] - 48) : d \in {ds}})

\* NUMBER_RE of json.scanner: -?(0|[1-9]\d*)(\.\d+)?([eE][-+]?\d+)?
MatchNumber(t, i) ==
    LET j == IF t[i] = 45 THEN i + 1 ELSE i
        ExpDigits(frac_end) ==
            IF frac_end + 1 <= Len(t) /\ t[frac_end + 1] \in {43, 45}
            THEN frac_end + 2 ELSE frac_end + 1
    IN  IF ~(j <= Len(t) /\ IsDigit(t[j])) THEN JsonFail
        ELSE Only({Only({Only({
            IF end = int_end
            THEN JsonValue(end, "int",
                     <<(IF j > i THEN -1 ELSE 1) * DigitsValue(SubSeq(t, j, int_end - 1))>>,
                     <<>>)
            ELSE JsonValue(end, "float", SubSeq(t, i, end - 1), <<>>) :
            end \in {IF frac_end <= Len(t) /\ t[frac_end] \in {69, 101}
                        /\ ExpDigits(frac_end) <= Len(t) /\ IsDigit(t[ExpDigits(frac_end)])
                     THEN DigitsEnd(t, ExpDigits(frac_end)) ELSE frac_end}}) :
            frac_end \in {IF int_end + 1 <= Len(t) /\ t[int_end] = 46
                             /\ IsDigit(t[int_end + 1])
                          THEN DigitsEnd(t, int_end + 1) ELSE int_end}}) :
            int_end \in {IF t[j] = 48 THEN j + 1 ELSE DigitsEnd(t, j)}})

StartsWith(t, i, lit) == i + Len(lit) - 1 <= Len(t) /\ SubSeq(t, i, i + Len(lit) - 1) = lit

Member(k, v) == [k |-> k, t |-> v.t, s |-> IF v.t \in {"dict", "list"} THEN <<>> ELSE v.s]

\* json.scanner scan_once with JSONObject and JSONArray of json.decoder.
RECURSIVE ScanOnce(_, _)
RECURSIVE JSONObject(_, _)
RECURSIVE JSONArray(_, _)
\* The members after the member key : v of a dict, from the position sep
\* after the value.
ObjectTail(t, key, v, sep) ==
    IF sep > Len(t) THEN JsonFail
    ELSE IF t[sep] = 125 THEN JsonValue(sep + 1, "dict", <<>>, <<Member(key.s, v)>>)
    ELSE IF t[sep] # 44 THEN JsonFail
    ELSE Only({IF ~rest.ok THEN JsonFail
               ELSE JsonValue(rest.end, "dict", <<>>, <<Member(key.s, v)>> \o rest.members) :
               rest \in {JSONObject(t, SkipWs(t, sep + 1))}})

\* from the opening quote of a key, at i
JSONObject(t, i) ==
    IF ~(i <= Len(t) /\ t[i] = 34) THEN JsonFail
    ELSE Only({
        IF ~key.ok THEN JsonFail
        ELSE Only({
            IF ~(colon <= Len(t) /\ t[colon] = 58) THEN JsonFail
            ELSE Only({
                IF ~v.ok THEN JsonFail
                ELSE Only({ObjectTail(t, key, v, sep) : sep \in {SkipWs(t, v.end)}}) :
                v \in {ScanOnce(t, SkipWs(t, colon + 1))}}) :
            colon \in {SkipWs(t, key.end)}}) :
        key \in {ScanString(t, i + 1)}})

\* from the first character of an element, at i
JSONArray(t, i) ==
    Only({
        IF ~v.ok THEN JsonFail
        ELSE Only({
            IF sep > Len(t) THEN JsonFail
            ELSE IF t[sep] = 93 THEN JsonValue(sep + 1, "list", <<>>, <<Member(<<>>, v)>>)
            ELSE IF t[sep] # 44 THEN JsonFail
            ELSE Only({IF ~rest.ok THEN JsonFail
                       ELSE JsonValue(rest.end, "list", <<>>,
                                      <<Member(<<>>, v)>> \o rest.members) :
                       rest \in {JSONArray(t, SkipWs(t, sep + 1))}}) :
            sep \in {SkipWs(t, v.end)}}) :
        v \in {ScanOnce(t, i)}})

ScanOnce(t, i) ==
    IF i > Len(t) THEN JsonFail
    ELSE IF t[i] = 34
    THEN Only({IF r.ok THEN JsonValue(r.end, "str", r.s, <<>>) ELSE JsonFail :
               r \in {ScanString(t, i + 1)}})
    ELSE IF t[i] = 123
    THEN Only({IF j <= Len(t) /\ t[j] = 125 THEN JsonValue(j + 1, "dict", <<>>, <<>>)
               ELSE JSONObject(t, j) : j \in {SkipWs(t, i + 1)}})
    ELSE IF t[i] = 91
    THEN Only({IF j <= Len(t) /\ t[j] = 93 THEN JsonValue(j + 1, "list", <<>>, <<>>)
               ELSE JSONArray(t, j) : j \in {SkipWs(t, i + 1)}})
    ELSE IF StartsWith(t, i, <<110, 117, 108, 108>>) THEN JsonValue(i + 4, "None", <<>>, <<>>)
    ELSE IF StartsWith(t, i, <<116, 114, 117, 101>>) THEN JsonValue(i + 4, "bool", <<1>>, <<>>)
    ELSE IF StartsWith(t, i, <<102, 97, 108, 115, 101>>) THEN JsonValue(i + 5, "bool", <<0>>, <<>>)
    ELSE Only({
        IF n.ok THEN n
        ELSE IF StartsWith(t, i, <<78, 97, 78>>)
        THEN JsonValue(i + 3, "float", <<78, 97, 78>>, <<>>)
        ELSE IF StartsWith(t, i, <<73, 110, 102, 105, 110, 105, 116, 121>>)
        THEN JsonValue(i + 8, "float", SubSeq(t, i, i + 7), <<>>)
        ELSE IF StartsWith(t, i, <<45, 73, 110, 102, 105, 110, 105, 116, 121>>)
        THEN JsonValue(i + 9, "float", SubSeq(t, i, i + 8), <<>>)
        ELSE JsonFail :
        n \in {MatchNumber(t, i)}})

\* json.loads of a str: one value between optional whitespace.
json_loads(t) ==
    IF t # <<>> /\ t[1] = 65279 THEN JsonFail
    ELSE Only({IF v.ok /\ SkipWs(t, v.end) = Len(t) + 1 THEN v ELSE JsonFail :
               v \in {ScanOnce(t, SkipWs(t, 1))}})

\* api/main.py _encode_cursor.  json.dumps returns ASCII, so .encode() and
\* .decode() keep the code points.
EncodeCursorArchiveSource(production_date, record_id, source) ==
    Only({Only({urlsafe_b64encode(e.bytes) : e \in {Utf8Encode(j)}}) :
          j \in {json_dumps([d |-> production_date, id |-> record_id,
                             src |-> Codes("archive")])}})

_encode_cursor(production_date, record_id, source) ==
    Only({Only({urlsafe_b64encode(e.bytes) : e \in {Utf8Encode(j)}}) :
          j \in {json_dumps([d |-> production_date, id |-> record_id, src |-> source])}})

\* What a step of _decode_cursor raises; all are subclasses of Exception.
CaughtExceptions ==
    {"UnicodeEncodeError", "binascii.Error", "UnicodeDecodeError", "JSONDecodeError"}

CursorNone == [raised |-> FALSE, t |-> "None", s |-> <<>>, members |-> <<>>]

\* What _decode_cursor does with the exception exc of a step.
Except(exc) ==
    IF exc \in CaughtExceptions THEN CursorNone
    ELSE [raised |-> TRUE, t |-> "None", s |-> <<>>, members |-> <<>>]

\* api/main.py _decode_cursor: the value json.loads returns, or None when a
\* step raises.
_decode_cursor(token) ==
    Only({
        IF ~e.ok THEN Except("UnicodeEncodeError")
        ELSE Only({
            IF ~b.ok THEN Except("binascii.Error")
            ELSE Only({
                IF ~u.ok THEN Except("UnicodeDecodeError")
                ELSE Only({
                    IF ~j.ok THEN Except("JSONDecodeError")
                    ELSE [raised |-> FALSE, t |-> j.t, s |-> j.s, members |-> j.members] :
                    j \in {json_loads(u.text)}}) :
                u \in {Utf8Decode(b.bytes)}}) :
            b \in {urlsafe_b64decode(e.bytes)}}) :
        e \in {Utf8Encode(token)}})

\* bool(value), as in "if cursor_data:".
Truthy(v) ==
    CASE v.t = "None" -> FALSE
      [] v.t \in {"dict", "list"} -> v.members # <<>>
      [] v.t = "str" -> v.s # <<>>
      [] v.t \in {"int", "bool"} -> v.s[1] # 0
      [] v.t = "float" ->
            LET mantissa == {i \in DOMAIN v.s : \A k \in 1..i : v.s[k] \notin {69, 101}}
            IN  \E i \in mantissa : v.s[i] \notin {45, 46, 48}

\* value[key] of a decoded dict: the last member with the key (KeyError: none).
HasKey(v, key) == v.t = "dict" /\ \E i \in DOMAIN v.members : v.members[i].k = key

GetItem(v, key) ==
    v.members[CHOOSE i \in DOMAIN v.members :
                  /\ v.members[i].k = key
                  /\ \A j \in DOMAIN v.members : v.members[j].k = key => j <= i]

(***************************************************************************)
(* Result cache (shared/cache.py).  time.time() and the modification times *)
(* of the two store files are counted in ticks of half a second; a file    *)
(* that does not exist has the modification time 0.  A thread is a request *)
(* worker of the API server.                                               *)
(***************************************************************************)
\* _DB_VERSION_CACHE_TTL = 1.0 (seconds), in ticks.
_DB_VERSION_CACHE_TTL == 2

\* TTLCache(maxsize=200, ttl=300), at the scale of the model: ttl in ticks.
maxsize == 2
ttl == 3

\* The last tick of the clock.
MaxClock == 3

\* The store files are written at most this many times.
MaxWrites == 1

Threads == {"w1", "w2"}

\* The thread of the requests that come one after the other.
Sequential == {"w1"}

\* The cached functions with the arguments they are called with, as the
\* key text shows them: prefix, repr of args, sorted(kwargs.items()).
Calls ==
    {[prefix |-> "items", args |-> <<"None", "200">>, kwargs |-> <<>>],
     [prefix |-> "monthly_total", args |-> <<"None", "None">>, kwargs |-> <<>>],
     [prefix |-> "test_endpoint", args |-> <<>>, kwargs |-> << <<"limit", "10">> >>]}

\* f"{mtime:.0f}" : the whole number of seconds nearest to mtime, the even
\* one of the two when mtime lies halfway.
Format0f(mtime) ==
    LET q == mtime \div 2
    IN  IF mtime % 2 = 0 THEN q ELSE IF q % 2 = 0 THEN q ELSE q + 1

\* get_db_version() called at current_time; raises: os.path.getmtime fails.
\* Returns the version with the new values of the two globals.
get_db_version(current_time, raises) ==
    IF /\ _db_version_cache # <<>>
       /\ (current_time - _db_version_timestamp) < _DB_VERSION_CACHE_TTL
    THEN [db_ver |-> _db_version_cache[1], cache |-> _db_version_cache,
          timestamp |-> _db_version_timestamp]
    ELSE IF raises
    THEN [db_ver |-> <<0, 0>>, cache |-> _db_version_cache,
          timestamp |-> _db_version_timestamp]
    ELSE LET combined == <<Format0f(live_mtime), Format0f(archive_mtime)>>
         IN  [db_ver |-> combined, cache |-> <<combined>>, timestamp |-> current_time]

\* The same, the key carrying the time of the call.
MakeCacheKeyWithCallTime(prefix, args, kwargs, raises) ==
    LET v == get_db_version(now, raises)
    IN  [key |-> [prefix |-> prefix, db_ver |-> <<v.db_ver[1], now>>, args |-> args,
                  kwargs |-> kwargs],
         db_ver |-> v.db_ver, cache |-> v.cache, timestamp |-> v.timestamp]

\* _make_cache_key(prefix, *args, **kwargs).  The MD5 digest of the key text
\* stands for the text: the key is the tuple the text is formatted from.
_make_cache_key(prefix, args, kwargs, raises) ==
    LET v == get_db_version(now, raises)
    IN  [key |-> [prefix |-> prefix, db_ver |-> v.db_ver, args |-> args,
                  kwargs |-> kwargs],
         db_ver |-> v.db_ver, cache |-> v.cache, timestamp |-> v.timestamp]

\* cachetools.TTLCache: the entries in order of use, the least recently
\* used first; an entry is valid while timer() < expires.
expire(c, time) == SelectSeq(c, LAMBDA e : time < e.expires)

\* cache_key in _api_cache
cache_contains(c, key, time) ==
    \E i \in DOMAIN c : c[i].key = key /\ time < c[i].expires

\* _api_cache[cache_key], for a key the cache contains: the entry becomes the
\* most recently used one.
cache_getitem(c, key) ==
    LET e == CHOOSE x \in {c[i] : i \in DOMAIN c} : x.key = key
    IN  [entry |-> e, cache |-> Append(SelectSeq(c, LAMBDA x : x.key # key), e)]

\* _api_cache[cache_key] = result : the expired entries go, then the least
\* recently used one if the key is new and the cache is full.
cache_setitem(c, key, e) ==
    LET kept == expire(c, e.expires - ttl)
        others == SelectSeq(kept, LAMBDA x : x.key # key)
        room == IF Len(others) = Len(kept) /\ Len(kept) >= maxsize
                THEN Tail(others) ELSE others
    IN  Append(room, e)

\* The function the decorator wraps: its result is determined by its
\* arguments and by the content of the stores, which the number of writes
\* so far stands for.
func(c) == [call |-> c, content |-> writes]

NoCallId == [prefix |-> "", args |-> <<>>, kwargs |-> <<>>]
NoValue == [call |-> NoCallId, content |-> 0]
NoKey == [prefix |-> "", db_ver |-> <<0, 0>>, args |-> <<>>, kwargs |-> <<>>]
NoEntry == [key |-> NoKey, value |-> NoValue, expires |-> 0, seen |-> 0]
\* No call observed as a first call yet.
NoFirst ==
    [some |-> FALSE, call |-> NoCallId, db_ver |-> <<0, 0>>, result |-> NoValue,
     entry |-> NoEntry]
\* The locals of the wrapper, with what the call found when it began
\* (started, second) and at its lookup (fresh, kept).
NoReq ==
    [call |-> NoCallId, cache_key |-> NoKey, db_ver |-> <<0, 0>>, result |-> NoValue,
     started |-> 0, second |-> FALSE, fresh |-> FALSE, kept |-> FALSE]
NoRet ==
    [some |-> FALSE, second |-> FALSE, kept |-> FALSE, hit |-> FALSE, same |-> FALSE,
     stale |-> FALSE]

\* The module as imported: nothing cached, no call made.
NoCache ==
    /\ now = 0
    /\ live_mtime = 0
    /\ archive_mtime = 0
    /\ writes = 0
    /\ _db_version_cache = <<>>
    /\ _db_version_timestamp = 0
    /\ _api_cache = <<>>
    /\ _cache_lock = <<>>
    /\ pc = [t \in Threads |-> "idle"]
    /\ req = [t \in Threads |-> NoReq]
    /\ ret = NoRet
    /\ first = NoFirst

(***************************************************************************)
(* Connection cache (shared/database.py).  A handle is the position of a   *)
(* sqlite3.Connection among all those made; each thread keeps, per         *)
(* (use_archive, read_only), a handle and the modification times it read   *)
(* when it cached the handle.                                              *)
(***************************************************************************)
MaxConnections == 3

MaxSize == 1

\* Every caller leaves read_only at its default.
ReadOnlyInputs == {TRUE}

ConnKeys == BOOLEAN \X ReadOnlyInputs

\* _get_db_mtime(): a file that does not exist counts 0.
_get_db_mtime == <<live_mtime, IF archive_exists THEN archive_mtime ELSE 0>>

\* The sizes of the two files, which _get_db_mtime does not read.
FileSizes == <<live_size, IF archive_exists THEN archive_size ELSE 0>>

\* getattr(_local, cache_key, None) and getattr(_local, mtime_key, None) of
\* a thread: <<>> is None.
NoSlot == [conn |-> <<>>, mtime |-> <<>>]

Raised(conns) ==
    [raised |-> TRUE, conn |-> 0, connections |-> conns, cached |-> FALSE]

\* get_connection that keeps the handle it has whatever the files' times.
GetConnectionIgnoringMtime(slot, use_archive, read_only, alive, connect_fails, attach_fails) ==
    IF slot.conn # <<>> /\ connections[slot.conn[1]].open /\ alive
    THEN [raised |-> FALSE, conn |-> slot.conn[1], connections |-> connections,
          cached |-> FALSE]
    ELSE Only({
        IF connect_fails THEN Raised(closed)
        ELSE IF Attached(use_archive) /\ attach_fails
        THEN Raised(Append(closed, [open |-> TRUE, key |-> <<use_archive, read_only>>, attached |-> FALSE,
                        returned_to |-> {}]))
        ELSE [raised |-> FALSE, conn |-> Len(closed) + 1,
              connections |-> Append(closed, [open |-> TRUE, key |-> <<use_archive, read_only>>,
                                              attached |-> Attached(use_archive),
                                              returned_to |-> {}]),
              cached |-> TRUE] :
        closed \in {IF slot.conn # <<>>
                    THEN [connections EXCEPT ![slot.conn[1]].open = FALSE]
                    ELSE connections}})

\* get_connection that opens a new handle without closing the one it has.
GetConnectionLeavingOpen(slot, use_archive, read_only, alive, connect_fails, attach_fails) ==
    IF /\ slot.conn # <<>>
       /\ slot.mtime = <<_get_db_mtime>>
       /\ connections[slot.conn[1]].open /\ alive
    THEN [raised |-> FALSE, conn |-> slot.conn[1], connections |-> connections,
          cached |-> FALSE]
    ELSE IF connect_fails THEN Raised(connections)
    ELSE IF Attached(use_archive) /\ attach_fails
    THEN Raised(Append(connections, [open |-> TRUE, key |-> <<use_archive, read_only>>, attached |-> FALSE,
                        returned_to |-> {}]))
    ELSE [raised |-> FALSE, conn |-> Len(connections) + 1,
          connections |-> Append(connections, [open |-> TRUE, key |-> <<use_archive, read_only>>,
                                               attached |-> Attached(use_archive),
                                               returned_to |-> {}]),
          cached |-> TRUE]

\* DBRouter.get_connection of a thread whose cached attributes are slot.
\* alive: "SELECT 1" on the cached handle does not raise sqlite3.Error (on a
\* closed handle it does); connect_fails: sqlite3.connect raises;
\* attach_fails: validate_db_path or ATTACH raises.  The result is the handle
\* returned (or raised), all connections after the call and whether the
\* handle and the times have been cached.
get_connection(slot, use_archive, read_only, alive, connect_fails, attach_fails) ==
    IF /\ slot.conn # <<>>
       /\ slot.mtime = <<_get_db_mtime>>
       /\ connections[slot.conn[1]].open /\ alive
    THEN [raised |-> FALSE, conn |-> slot.conn[1], connections |-> connections,
          cached |-> FALSE]
    ELSE Only({
        IF connect_fails THEN Raised(closed)
        ELSE IF Attached(use_archive) /\ attach_fails
        THEN Raised(Append(closed, [open |-> TRUE, key |-> <<use_archive, read_only>>, attached |-> FALSE,
                        returned_to |-> {}]))
        ELSE [raised |-> FALSE, conn |-> Len(closed) + 1,
              connections |-> Append(closed, [open |-> TRUE, key |-> <<use_archive, read_only>>,
                                              attached |-> Attached(use_archive),
                                              returned_to |-> {}]),
              cached |-> TRUE] :
        closed \in {IF slot.conn # <<>>
                    THEN [connections EXCEPT ![slot.conn[1]].open = FALSE]
                    ELSE connections}})

NoConnRet ==
    [some |-> FALSE, thread |-> "", key |-> <<FALSE, TRUE>>, raised |-> FALSE, conn |-> 0,
     fresh |-> FALSE, had |-> FALSE, prev |-> 0, mtime_changed |-> FALSE,
     size_changed |-> FALSE, alive |-> FALSE]

\* The module as imported: no connection made.
NoConnections ==
    /\ live_size = 0
    /\ archive_size = 0
    /\ connections = <<>>
    /\ _local = [t \in Threads |-> [k \in ConnKeys |-> NoSlot]]
    /\ _all_connections = <<>>
    /\ seen_size = [t \in Threads |-> [k \in ConnKeys |-> <<0, 0>>]]
    /\ conn_ret = NoConnRet


(***************************************************************************)
(* Query sandbox (api/tools.py).  Here a str is the sequence of its        *)
(* characters, which are printable ASCII characters and the newline.       *)
(***************************************************************************)
\* c.upper() for one of these characters.
UpperChar(c) ==
    IF c \in DOMAIN CharCode /\ Ord(c) \in 97..122 THEN AsciiTable[Ord(c) - 63] ELSE c

\* str.upper()
upper(s) == Tuple([i \in DOMAIN s |-> UpperChar(s[i])])

Max(S) == Only({CHOOSE p \in T : \A q \in T : p >= q : T \in {S}})

\* str.strip(): without the whitespace at both ends.
strip(s) ==
    Only({IF ns = {} THEN <<>> ELSE SubSeq(s, Min(ns), Max(ns)) :
          ns \in {{i \in DOMAIN s : s[i] \notin {" ", "\n"}}}})

\* needle in hay, for two str values.
In(needle, hay) == \E i \in 1..(Len(hay) - Len(needle) + 1) : StartsWith(hay, i, needle)

\* The leftmost match of /\*.*?\*/ (DOTALL) in s from position p on: where
\* it begins and where its closing */ begins, or <<>>.
FirstBlockComment(s, p) ==
    Only({
        IF opens = {} THEN <<>>
        ELSE Only({IF closes = {} THEN <<>> ELSE <<Min(opens), Min(closes)>> :
                   closes \in {{j \in (Min(opens) + 2)..Len(s) : StartsWith(s, j, <<"*", "/">>)}}}) :
        opens \in {{i \in p..Len(s) : StartsWith(s, i, <<"/", "*">>)}}})

\* re.sub(r'/\*.*?\*/', ' ', sql, flags=re.DOTALL), from position p on.
RECURSIVE SubBlockComments(_, _)
SubBlockComments(s, p) ==
    Only({IF m = <<>> THEN SubSeq(s, p, Len(s))
          ELSE SubSeq(s, p, m[1] - 1) \o <<" ">> \o SubBlockComments(s, m[2] + 2) :
          m \in {FirstBlockComment(s, p)}})

\* re.sub(r'--[^\n]*', ' ', sql), from position p on.
RECURSIVE SubLineComments(_, _)
SubLineComments(s, p) ==
    Only({
        IF starts = {} THEN SubSeq(s, p, Len(s))
        ELSE SubSeq(s, p, Min(starts) - 1) \o <<" ">>
             \o SubLineComments(s, Min({j \in Min(starts)..Len(s) : s[j] = "\n"}
                                       \cup {Len(s) + 1})) :
        starts \in {{i \in p..Len(s) : StartsWith(s, i, <<"-", "-">>)}}})

\* api/tools.py _strip_sql_comments
_strip_sql_comments(sql) ==
    Only({Only({strip(l) : l \in {SubLineComments(b, 1)}}) : b \in {SubBlockComments(sql, 1)}})

\* The denylist of execute_custom_query, in its order.
forbidden ==
    <<<<"D", "R", "O", "P">>,
      <<"D", "E", "L", "E", "T", "E">>,
      <<"U", "P", "D", "A", "T", "E">>,
      <<"I", "N", "S", "E", "R", "T">>,
      <<"A", "L", "T", "E", "R">>,
      <<"T", "R", "U", "N", "C", "A", "T", "E">>,
      <<"C", "R", "E", "A", "T", "E">>,
      <<"R", "E", "P", "L", "A", "C", "E">>,
      <<"P", "R", "A", "G", "M", "A">>,
      <<"A", "T", "T", "A", "C", "H">>,
      <<"D", "E", "T", "A", "C", "H">>,
      <<"V", "A", "C", "U", "U", "M">>,
      <<"R", "E", "I", "N", "D", "E", "X">>,
      <<"L", "O", "A", "D", "_", "E", "X", "T", "E", "N", "S", "I", "O", "N">>,
      <<"S", "Q", "L", "I", "T", "E", "_">>,
      <<"E", "X", "E", "C", "(">>,
      <<"E", "X", "E", "C", "U", "T", "E">>,
      <<"S", "Y", "S", "T", "E", "M">>,
      <<"S", "C", "R", "I", "P", "T">>,
      <<"J", "A", "V", "A", "S", "C", "R", "I", "P", "T">>,
      <<"E", "V", "A", "L">>>>

SELECT ==
    <<"S", "E", "L", "E", "C", "T">>

PRODUCTION_RECORDS ==
    <<"P", "R", "O", "D", "U", "C", "T", "I", "O", "N", "_", "R", "E", "C", "O", "R", "D", "S">>

ARCHIVE_PRODUCTION_RECORDS ==
    <<"A", "R", "C", "H", "I", "V", "E", ".", "P", "R", "O", "D", "U", "C", "T", "I", "O", "N",
        "_", "R", "E", "C", "O", "R", "D", "S">>

LIMIT ==
    <<"L", "I", "M", "I", "T">>

\* " LIMIT 1000"
LIMIT_1000 ==
    <<" ", "L", "I", "M", "I", "T", " ", "1", "0", "0", "0">>

\* The messages of the rejections.
SEMICOLON_DETECTED == "Multiple statements are not allowed (semicolon detected)."
ONLY_SELECT == "Only SELECT queries are allowed."
FORBIDDEN_KEYWORD == "Forbidden keyword detected: "
MUST_REFERENCE == "Query must reference 'production_records' table."

\* The validations with the denylist looked up in the text as it was written.
ValidationAsWritten(sql_clean, sql_upper) ==
    IF In(<<";">>, sql_clean) THEN <<SEMICOLON_DETECTED>>
    ELSE IF ~StartsWith(sql_upper, 1, SELECT) THEN <<ONLY_SELECT>>
    ELSE IF \E i \in DOMAIN forbidden : In(forbidden[i], sql_clean)
    THEN <<FORBIDDEN_KEYWORD,
           forbidden[Min({i \in DOMAIN forbidden : In(forbidden[i], sql_clean)})]>>
    ELSE IF ~In(PRODUCTION_RECORDS, sql_upper) THEN <<MUST_REFERENCE>>
    ELSE <<>>

\* The validations with the denylist looked up before the beginning of the
\* text is.
ValidationDenylistFirst(sql_clean, sql_upper) ==
    IF In(<<";">>, sql_clean) THEN <<SEMICOLON_DETECTED>>
    ELSE IF \E i \in DOMAIN forbidden : In(forbidden[i], sql_upper)
    THEN <<FORBIDDEN_KEYWORD,
           forbidden[Min({i \in DOMAIN forbidden : In(forbidden[i], sql_upper)})]>>
    ELSE IF ~StartsWith(sql_upper, 1, SELECT) THEN <<ONLY_SELECT>>
    ELSE IF ~In(PRODUCTION_RECORDS, sql_upper) THEN <<MUST_REFERENCE>>
    ELSE <<>>

\* The validations 1 to 4 of execute_custom_query on the comment-free text
\* and its upper case: the message of the rejection, <<>> when there is none.
Validation(sql_clean, sql_upper) ==
    IF In(<<";">>, sql_clean) THEN <<SEMICOLON_DETECTED>>
    ELSE IF ~StartsWith(sql_upper, 1, SELECT) THEN <<ONLY_SELECT>>
    ELSE IF \E i \in DOMAIN forbidden : In(forbidden[i], sql_upper)
    THEN <<FORBIDDEN_KEYWORD,
           forbidden[Min({i \in DOMAIN forbidden : In(forbidden[i], sql_upper)})]>>
    ELSE IF ~In(PRODUCTION_RECORDS, sql_upper) THEN <<MUST_REFERENCE>>
    ELSE <<>>

\* execute_custom_query up to the statement it will run: the comment-free
\* text, the rejection if any, the text with the cap, and use_archive.
Prepared(sql) ==
    Only({Only({
        [sql_clean |-> c, message |-> Validation(c, u),
         statement |-> IF ~In(LIMIT, u) THEN c \o LIMIT_1000 ELSE c,
         use_archive |-> In(ARCHIVE_PRODUCTION_RECORDS, u)] :
        u \in {upper(c)}}) :
        c \in {_strip_sql_comments(strip(sql))}})

\* How the submitted queries begin,
Beginnings ==
    {<<"S", "E", "L", "E", "C", "T", " ">>,
     <<"s", "e", "l", "e", "c", "t", " ">>,
     <<" ", " ", "S", "E", "L", "E", "C", "T", " ">>,
     <<"/", "*", " ", ";", " ", "*", "/", " ", "S", "E", "L", "E", "C", "T", " ">>,
     <<"-", "-", " ", ";", "\n", "S", "E", "L", "E", "C", "T", " ">>,
     <<"/", "*", " ", "D", "R", "O", "P", " ", "*", "/", " ", "S", "E", "L", "E", "C", "T", " ">>,
     <<"D", "R", "O", "P", " ", "T", "A", "B", "L", "E", " ", "x", ";", " ", "S", "E", "L", "E", "C", "T", " ">>,
     <<"P", "R", "A", "G", "M", "A", " ">>,
     <<"D", "R", "O", "P", " ">>}

\* what they select,
Columns ==
    {<<"*">>,
     <<"1">>,
     <<"n", "o", "_", "l", "i", "m", "i", "t">>,
     <<"d", "r", "o", "p", "p", "e", "d">>,
     <<"D", "E", "L", "E", "T", "E", ",", " ", "P", "R", "A", "G", "M", "A">>,
     <<"'", "a", ";", "b", "'">>,
     <<"/", "*", " ", "P", "R", "A", "G", "M", "A", " ", "*", "/", " ", "1">>,
     <<"'", "-", "-", "'", ",", " ", "2">>,
     <<"p", "r", "a", "g", "m", "a", "_", "v">>}

\* from which table,
Tables ==
    {<<" ", "F", "R", "O", "M", " ", "p", "r", "o", "d", "u", "c", "t", "i", "o", "n", "_", "r", "e", "c", "o", "r", "d", "s">>,
     <<" ", "f", "r", "o", "m", " ", "P", "r", "o", "d", "u", "c", "t", "i", "o", "n", "_", "R", "e", "c", "o", "r", "d", "s", " ", "p">>,
     <<" ", "F", "R", "O", "M", " ", "a", "r", "c", "h", "i", "v", "e", ".", "p", "r", "o", "d", "u", "c", "t", "i", "o", "n", "_", "r", "e", "c", "o", "r", "d", "s">>,
     <<" ", "F", "R", "O", "M", " ", "u", "s", "e", "r", "s">>}

\* and how they end.
Endings ==
    {<<>>,
     <<" ", "L", "I", "M", "I", "T", " ", "5">>,
     <<" ", "l", "i", "m", "i", "t", " ", "5", "0", "0", "0">>,
     <<";">>,
     <<" ", "/", "*", " ", ";">>,
     <<" ", "/", "*", " ", "x">>,
     <<" ", "-", "-", " ", ";", " ", "x">>,
     <<" ", "/", "*", " ", "x", " ", "*", "/", " ">>,
     <<";", " ", "D", "R", "O", "P", " ", "T", "A", "B", "L", "E", " ", "p", "r", "o", "d", "u", "c", "t", "i", "o", "n", "_", "r", "e", "c", "o", "r", "d", "s">>}

\* Every sql argument of execute_custom_query in the model.
Queries == {b \o c \o t \o e : b \in Beginnings, c \in Columns, t \in Tables, e \in Endings}

\* Where the quoted text that opens before position i ends: at the first
\* quote that is not doubled, or with the text.
RECURSIVE QuoteEnd(_, _, _)
QuoteEnd(s, i, quote) ==
    IF i > Len(s) THEN Len(s)
    ELSE IF s[i] # quote THEN QuoteEnd(s, i + 1, quote)
    ELSE IF i < Len(s) /\ s[i + 1] = quote THEN QuoteEnd(s, i + 2, quote)
    ELSE i

\* What SQLite reads at position p of a statement, a comment, a quoted text
\* or a run of other tokens, and where it ends.  A block comment extends to
\* the next */ or to the end of the text, a line comment to the end of the
\* line.
TokenAt(s, p) ==
    IF StartsWith(s, p, <<"/", "*">>) /\ p + 2 <= Len(s)
    THEN <<"comment", Min({j + 1 : j \in {k \in (p + 2)..Len(s) : StartsWith(s, k, <<"*", "/">>)}}
                          \cup {Len(s)})>>
    ELSE IF StartsWith(s, p, <<"-", "-">>)
    THEN <<"comment", Min({j \in p..Len(s) : s[j] = "\n"} \cup {Len(s) + 1}) - 1>>
    ELSE IF s[p] \in {"'", "\""} THEN <<"literal", QuoteEnd(s, p + 1, s[p])>>
    ELSE <<"code", Min({j \in (p + 1)..Len(s) : s[j] \in {"/", "-", "'", "\""}}
                       \cup {Len(s) + 1}) - 1>>

\* What each position of a statement is to SQLite, from position p on.
RECURSIVE Tokenize(_, _)
Tokenize(s, p) ==
    IF p > Len(s) THEN <<>>
    ELSE Only({[i \in 1..(e[2] - p + 1) |-> e[1]] \o Tokenize(s, e[2] + 1) :
               e \in {TokenAt(s, p)}})

\* The statement as SQLite reads it, a blank for each character of a comment.
WithoutComments(s) ==
    Only({Tuple([i \in DOMAIN s |-> IF k[i] = "comment" THEN " " ELSE s[i]]) :
          k \in {Tokenize(s, 1)}})

\* Every semicolon of the text is inside a comment, and there is one.
SemicolonOnlyInComments(s) ==
    /\ \E i \in DOMAIN s : s[i] = ";"
    /\ Only({\A i \in DOMAIN s : s[i] = ";" => k[i] = "comment" : k \in {Tokenize(s, 1)}})

IdentifierChars ==
    {AsciiTable[i] : i \in (17..26) \cup (34..59) \cup (66..91)} \cup {"_", "$"}

\* The statement has the keyword LIMIT: the word, outside comments and quotes.
HasLimitClause(s) ==
    Only({Only({
        \E i \in DOMAIN s :
            /\ StartsWith(u, i, LIMIT)
            /\ \A j \in i..(i + 4) : k[j] = "code"
            /\ i > 1 => s[i - 1] \notin IdentifierChars
            /\ i + 5 <= Len(s) => s[i + 5] \notin IdentifierChars :
        u \in {upper(s)}}) : k \in {Tokenize(s, 1)}})

\* No execute_custom_query call is under way.
NoQuery == [pc |-> "none", sql |-> <<>>, prepared |-> <<>>, response |-> <<>>]

NoSandbox ==
    /\ custom_query = NoQuery
    /\ query_conn = <<>>
    /\ query_thread = [state |-> "none", executed |-> <<>>]
    /\ query_result = [rows |-> <<>>, error |-> <<>>]

(***************************************************************************)
(* Rate limiter (shared/rate_limiter.py): one RateLimiter instance.        *)
(***************************************************************************)
\* The arguments of RateLimiter(max_requests, window_seconds).
max_requests == 2

window_seconds == 2

\* time.time() is a float; the model counts it in half seconds.
TicksPerSecond == 2

\* The window in that unit.
Window == window_seconds * TicksPerSecond

\* The clients, by their address, and the threads that serve their requests.
Clients == {"10.0.0.1", "10.0.0.2"}

Callers == {"t1", "t2", "t3"}

\* self._requests[ip] of the defaultdict(list): the list, empty for a new key.
Requests(ip) == IF ip \in DOMAIN _requests THEN _requests[ip] ELSE <<>>

\* [ts for ts in timestamps if ts > cutoff_time]
Unexpired(timestamps, cutoff_time) ==
    SelectSeq(timestamps, LAMBDA ts : ts > cutoff_time)

\* No call of retry_after, remaining or cleanup has returned.
NoLimiterRet == [method |-> "none"]

\* The limiter as __init__ leaves it, no call under way.
NoLimiter ==
    /\ _requests = <<>>
    /\ _lock = <<>>
    /\ limiter_pc = [t \in Callers |-> "idle"]
    /\ limiter_local = [t \in Callers |-> <<>>]
    /\ calls = <<>>
    /\ limiter_ret = NoLimiterRet

(***************************************************************************)
(* Stabilization and index healing (shared/db_maintenance.py) and the      *)
(* watcher thread of the manager (tools/db_watcher.py).                    *)
(***************************************************************************)
Stores == {"live", "archive"}

\* db_path.exists()
Exists(store) == IF store = "live" THEN TRUE ELSE archive_exists

\* get_file_state(path): (mtime, size), (0, 0) for a file that is not there.
get_file_state(store) ==
    IF ~Exists(store) THEN <<0, 0>>
    ELSE IF store = "live" THEN <<live_mtime, live_size>>
    ELSE <<archive_mtime, archive_size>>

STABILIZATION_CHECKS == 3

MAX_STABILIZATION_RETRIES == 5

\* The names of REQUIRED_INDEXES, in the order of the dict.
REQUIRED_INDEXES == <<"idx_production_date", "idx_item_code", "idx_item_date">>

\* An index of production_records that is none of the required ones.
OTHER_INDEX == "idx_lot_number"

\* The names of REQUIRED_INDEXES that PRAGMA index_list does not show.
MissingIndexes(existing) == SelectSeq(REQUIRED_INDEXES, LAMBDA name : name \notin existing)

\* What fails in a run of check_and_heal_indexes: nothing (0), the
\* connecting or the PRAGMA (-1), or the k-th CREATE INDEX it executes.
Failures == -1..3

\* check_and_heal_indexes recreating every required index, missing or not.
HealRecreatingAll(exists, existing, failure) ==
    IF ~exists
    THEN [checked |-> FALSE, healed |-> <<>>, error |-> <<"File not found">>,
          existing |-> existing]
    ELSE IF failure = -1
    THEN [checked |-> FALSE, healed |-> <<>>, error |-> <<"sqlite3.Error">>,
          existing |-> existing]
    ELSE [checked |-> TRUE, healed |-> REQUIRED_INDEXES, error |-> <<>>,
          existing |-> existing \cup {REQUIRED_INDEXES[i] : i \in DOMAIN REQUIRED_INDEXES}]

\* check_and_heal_indexes(db_path) on a store with these indexes: the result
\* dict, and the indexes the store has afterwards.  Each CREATE INDEX is
\* committed as it is executed, so what was created before a failure stays.
check_and_heal_indexes(exists, existing, failure) ==
    IF ~exists
    THEN [checked |-> FALSE, healed |-> <<>>, error |-> <<"File not found">>,
          existing |-> existing]
    ELSE IF failure = -1
    THEN [checked |-> FALSE, healed |-> <<>>, error |-> <<"sqlite3.Error">>,
          existing |-> existing]
    ELSE Only({
        Only({[checked |-> TRUE, healed |-> created,
               error |-> IF failure \in DOMAIN missing THEN <<"sqlite3.Error">> ELSE <<>>,
               existing |-> existing \cup {created[i] : i \in DOMAIN created}] :
              created \in {IF failure \in DOMAIN missing
                           THEN SubSeq(missing, 1, failure - 1) ELSE missing}}) :
        missing \in {MissingIndexes(existing)}})

\* A thread that is not in _check_and_heal.
NoCycle == [pc |-> "idle", todo |-> <<>>, store |-> "", last |-> <<0, 0>>,
            checks |-> 0, retry |-> 0, streak |-> 0]

\* No check_and_heal_indexes has run.
NoHeal == [some |-> FALSE]

WatcherThreads == {"run"}

\* No watcher has been made.
NoWatcher ==
    /\ db_states = <<>>
    /\ log_queue = <<>>
    /\ cycle = [t \in WatcherThreads |-> NoCycle]
    /\ indexes = [s \in Stores |-> {}]
    /\ heal_ret = NoHeal
    /\ running = "none"

\* None of the services is in use.
NoServices == NoConnections /\ NoSandbox /\ NoLimiter /\ NoWatcher

(***************************************************************************)
(* The router as a state machine: a request arrives with its arguments,    *)
(* is routed (by pick_targets, or by a caller that constructs DBTargets    *)
(* itself as get_item_records does) and its SQL is built.                  *)
(***************************************************************************)
SelectColumnInputs ==
    {"id, item_code",
     "id, production_date, lot_number, item_code, item_name, good_quantity"}

WhereInputs ==
    {<<"1=1">>, <<"item_code = ?">>,
     <<"production_date >= ?", " AND ", "production_date < ?">>}

OrderInputs == {ORDER_DEFAULT, "item_code ASC", ""}

LimitInputs == {NoLimit, <<100>>}

UnionArgInputs ==
    [select_columns : SelectColumnInputs, where_clause : WhereInputs,
     order_by : OrderInputs, limit : LimitInputs, include_source : BOOLEAN]

\* No handler has run yet.
NoCall == [name |-> "none", where |-> <<>>, params |-> <<>>, group_by |-> ""]
NoResult == [status |-> "none", rows |-> {}]

\* No token issued and no page requested.
NoPaging ==
    /\ cursor = <<>>
    /\ encoded = [d |-> <<>>, id |-> 0, src |-> <<>>]
    /\ issued = FALSE
    /\ cursor_data = CursorNone
    /\ results = <<>>
    /\ has_more = FALSE
    /\ fetched = <<>>
    /\ npages = 0
    /\ page_size = 0

\* The requests of the router specification touch no store.
NoStores ==
    /\ archive_rows = <<>>
    /\ live_rows = <<>>
    /\ NoPaging
    /\ NoCache
    /\ NoServices
    /\ call = NoCall
    /\ query_params = None
    /\ result = NoResult

InitRouter ==
    /\ NoStores
    /\ phase = "input"
    /\ date_from \in RangeDates \cup {None}
    /\ date_to \in RangeDates \cup {None}
    /\ archive_exists \in BOOLEAN
    /\ union_args \in UnionArgInputs
    /\ targets = None
    /\ final_sql = None
    /\ params_doubled = None

\* targets = DBRouter.pick_targets(date_from_n, date_to_n)
PickTargets ==
    /\ phase = "input"
    /\ targets' = pick_targets(date_from, date_to)
    /\ phase' = "picked"
    /\ UNCHANGED <<date_from, date_to, archive_exists, union_args, final_sql, params_doubled,
                   storeVars, readVars>>

\* targets = DBTargets(use_archive=..., use_live=...) built by the caller
GivenTargets ==
    /\ phase = "input"
    /\ \E a \in BOOLEAN, l \in BOOLEAN : targets' = DBTargets(a, l)
    /\ phase' = "given"
    /\ UNCHANGED <<date_from, date_to, archive_exists, union_args, final_sql, params_doubled,
                   storeVars, readVars>>

\* sql, params_doubled = DBRouter.build_union_sql(...)
BuildUnionSql ==
    /\ phase \in {"picked", "given"}
    /\ LET r == build_union_sql(union_args.select_columns, union_args.where_clause,
                                targets, union_args.order_by, union_args.limit,
                                union_args.include_source)
       IN  /\ final_sql' = r.sql
           /\ params_doubled' = r.params_doubled
    /\ phase' = "built"
    /\ UNCHANGED <<date_from, date_to, archive_exists, targets, union_args, storeVars, readVars>>

NextRouter == PickTargets \/ GivenTargets \/ BuildUnionSql

SpecRouter == InitRouter /\ [][NextRouter]_vars

(***************************************************************************)
(* Claims on routing                                                       *)
(***************************************************************************)
Cutoff == Chars(ARCHIVE_CUTOFF_DATE)

\* C1: whenever date_to is given, pick_targets selects the live store iff
\* date_to > cutoff (strictly); a date_to equal to the cutoff excludes live.
C1_LiveIffToAfterCutoff ==
    (phase = "picked" /\ date_to # None)
        => (targets.use_live <=> StrLT(Cutoff, Chars(date_to)))

C3_ArchiveIffFromBeforeCutoff ==
    phase = "picked" =>
        /\ targets.use_archive <=>
              (date_from = None \/ (date_from # ARCHIVE_CUTOFF_DATE
                                     /\ ~StrLT(Cutoff, Chars(date_from))))
        /\ date_to = None => targets.use_live
        /\ (date_from = None /\ date_to = None) => targets = DBTargets(TRUE, TRUE)

C3_Witness ==
    /\ phase = "picked"
    /\ date_from = ARCHIVE_CUTOFF_DATE
    /\ date_to = None
    /\ targets = DBTargets(FALSE, TRUE)

\* The dates a record may bear.
RoutedDates ==
    {"2025-11-01", "2025-12-01", "2025-12-30", "2025-12-31", "2026-01-01", "2026-01-02",
     "2026-02-01"}

\* d lies in [date_from, date_to), an absent bound bounding nothing.
InsideRange(d) ==
    /\ date_from # None => StrGE(Chars(d), Chars(date_from))
    /\ date_to # None => StrLT(Chars(d), Chars(date_to))

\* C34: routing is sound: for a range [date_from, date_to) with
\* date_from < date_to, either bound possibly absent, and every date d inside
\* it, pick_targets selects the archive store if d < cutoff and the live
\* store if d >= cutoff.
C34_RoutingSound ==
    (/\ phase = "picked"
     /\ (date_from # None /\ date_to # None) => StrLT(Chars(date_from), Chars(date_to)))
        => \A d \in RoutedDates :
              InsideRange(d) =>
                  /\ StrLT(Chars(d), Cutoff) => targets.use_archive
                  /\ StrGE(Chars(d), Cutoff) => targets.use_live

\* A range that begins on the last day before the cutoff and ends after the
\* cutoff day holds a date of either store, and both stores are selected.
C34_Witness ==
    /\ phase = "picked"
    /\ date_from = "2025-12-31"
    /\ date_to = "2026-01-02"
    /\ InsideRange("2025-12-31")
    /\ InsideRange("2026-01-01")
    /\ targets = DBTargets(TRUE, TRUE)

\* Position of the single UNION ALL of a statement that has one.
UnionAt(sql) == CHOOSE i \in DOMAIN sql : sql[i] = UNION_ALL

\* C4 (as claimed): with both targets selected the SQL has exactly one UNION
\* ALL and one source literal per branch and params_doubled is true; with
\* exactly one target selected it has no UNION ALL and params_doubled is false.
C4_UnionShape ==
    phase = "built" =>
        /\ need_union(targets) =>
              /\ Count(final_sql, UNION_ALL) = 1
              /\ Count(final_sql, SRC_ARCHIVE) = 1
              /\ Count(final_sql, SRC_LIVE) = 1
              /\ params_doubled = TRUE
        /\ (targets.use_archive # targets.use_live) =>
              /\ Count(final_sql, UNION_ALL) = 0
              /\ params_doubled = FALSE

\* C4 (amended): the two-branch shape needs the archive file to exist, and
\* the source literals need include_source; a request that emits one branch
\* or none has no UNION ALL and params_doubled false.
C4_UnionShapeArchivePresent ==
    phase = "built" =>
        /\ (need_union(targets) /\ archive_exists) =>
              /\ Count(final_sql, UNION_ALL) = 1
              /\ params_doubled = TRUE
              /\ union_args.include_source =>
                    /\ Count(final_sql, SRC_ARCHIVE) = 1
                    /\ Count(final_sql, SRC_LIVE) = 1
                    /\ \E i \in DOMAIN final_sql :
                          final_sql[i] = SRC_ARCHIVE /\ i < UnionAt(final_sql)
                    /\ \E i \in DOMAIN final_sql :
                          final_sql[i] = SRC_LIVE /\ i > UnionAt(final_sql)
        /\ (~need_union(targets) \/ ~archive_exists) =>
              /\ Count(final_sql, UNION_ALL) = 0
              /\ params_doubled = FALSE

C4_Witness ==
    /\ phase = "built"
    /\ need_union(targets)
    /\ archive_exists
    /\ union_args.include_source
    /\ Count(final_sql, UNION_ALL) = 1
    /\ params_doubled = TRUE

(***************************************************************************)
(* Summaries: the stores are filled by the external ingestion, which       *)
(* keeps the partition (archive before the cutoff, live from it on), and   *)
(* the summary handlers read them by pre-aggregate-then-merge.             *)
(***************************************************************************)
MaxRows == 3

ArchiveDates == {"2025-12-31"}
LiveDates == {"2026-01-01"}
Items == {"A", "B"}
Quantities == {-1, 2}

INNER_SUMMARY == "SUM(good_quantity) AS total, COUNT(*) AS cnt, AVG(good_quantity) AS avg_val"
INNER_MONTHLY == "substr(production_date, 1, 7) AS year_month, SUM(good_quantity) AS total, COUNT(*) AS cnt, AVG(good_quantity) AS avg_val"
INNER_BY_ITEM == "item_code, MAX(item_name) AS item_name, SUM(good_quantity) AS total, COUNT(*) AS cnt"
INNER_MONTHLY_ITEM == "substr(production_date, 1, 7) AS year_month, item_code, MAX(item_name) AS item_name, SUM(good_quantity) AS total, COUNT(*) AS cnt, AVG(good_quantity) AS avg_val"

\* date + timedelta(days=1), on the dates the model passes
NextDay(d) ==
    CASE d = "2025-12-30" -> "2025-12-31"
      [] d = "2025-12-31" -> "2026-01-01"
      [] d = "2026-01-01" -> "2026-01-02"

\* first day of the month after year_month (api/main.py, _monthly_by_item_cached)
NextMonthFirst(ym) ==
    CASE ym = "2025-12" -> "2026-01-01"
      [] ym = "2026-01" -> "2026-02-01"

MonthFirst(ym) ==
    CASE ym = "2025-12" -> "2025-12-01"
      [] ym = "2026-01" -> "2026-01-01"

InitAgg ==
    /\ phase = "input"
    /\ archive_exists \in BOOLEAN
    /\ archive_rows = <<>>
    /\ live_rows = <<>>
    /\ date_from = None
    /\ date_to = None
    /\ targets = None
    /\ union_args = None
    /\ final_sql = None
    /\ params_doubled = None
    /\ call = NoCall
    /\ query_params = None
    /\ result = NoResult
    /\ NoPaging
    /\ NoCache
    /\ NoServices

\* The ingestion appends a production record to the archive store, which
\* holds the dates before the cutoff.
AppendArchive(dates, items, quantities, bound) ==
    /\ phase = "input"
    /\ archive_exists
    /\ Len(archive_rows) + Len(live_rows) < bound
    /\ \E d \in dates, i \in items, q \in quantities :
          archive_rows' = Append(archive_rows,
              [production_date |-> d, item_code |-> i, good_quantity |-> q])
    /\ UNCHANGED <<routerVars, live_rows, readVars>>

\* The ingestion appends a production record to the live store, which holds
\* the dates from the cutoff on.
AppendLive(dates, items, quantities, bound) ==
    /\ phase = "input"
    /\ Len(archive_rows) + Len(live_rows) < bound
    /\ \E d \in dates, i \in items, q \in quantities :
          live_rows' = Append(live_rows,
              [production_date |-> d, item_code |-> i, good_quantity |-> q])
    /\ UNCHANGED <<routerVars, archive_rows, readVars>>

IngestArchive == AppendArchive(ArchiveDates, Items, Quantities, MaxRows)

IngestLive == AppendLive(LiveDates, Items, Quantities, MaxRows)

\* The common part of the summary handlers: build the statement and its
\* parameters for the targets and execute it on a connection that attaches
\* the archive iff targets.use_archive.  ORDER BY and LIMIT do not change the
\* set of groups (the limits, 100 and more, exceed the groups of the model).
RunAggregation(name, t, inner_select, where, params, outer_select, group_by, order_by, limit) ==
    \E b \in {build_aggregation_sql(inner_select, where, outer_select, group_by, t, order_by, limit)} :
    \E qp \in {build_query_params(params, t, Chars(ARCHIVE_CUTOFF_DATE))} :
    \E r \in {ExecAggregation(b.sql, qp, Attached(t.use_archive))} :
        /\ targets' = t
        /\ final_sql' = b.sql
        /\ params_doubled' = b.params_doubled
        /\ query_params' = qp
        /\ call' = [name |-> name, where |-> where, params |-> params, group_by |-> group_by]
        /\ result' = [status |-> IF r.ok THEN "success" ELSE "error", rows |-> r.rows]
        /\ phase' = "done"
        /\ UNCHANGED <<archive_exists, union_args, storeVars, cursorVars, pageVars, cacheVars, serviceVars>>

\* api/tools.py get_production_summary(date_from, date_to, item_code)
GetProductionSummary ==
    /\ phase = "input"
    /\ \E f \in {"2025-12-31", "2026-01-01"}, t \in {"2025-12-31", "2026-01-01"},
          item \in {None, "A"} :
          IF StrLT(Chars(t), Chars(f))
          THEN \* validate_date_range_exclusive raises; the handler returns an error
               /\ call' = [name |-> "get_production_summary", where |-> <<>>,
                           params |-> <<>>, group_by |-> ""]
               /\ result' = [status |-> "error", rows |-> {}]
               /\ phase' = "done"
               /\ date_from' = f
               /\ date_to' = t
               /\ UNCHANGED <<archive_exists, targets, union_args, final_sql,
                              params_doubled, query_params, storeVars, cursorVars, pageVars, cacheVars, serviceVars>>
          ELSE /\ date_from' = f
               /\ date_to' = NextDay(t)
               /\ RunAggregation("get_production_summary", pick_targets(f, NextDay(t)),
                     INNER_SUMMARY,
                     <<"production_date >= ?", " AND ", "production_date < ?">>
                        \o (IF item # None THEN <<" AND ", "item_code = ?">> ELSE <<>>),
                     <<Chars(f), Chars(NextDay(t))>>
                        \o (IF item # None THEN <<item>> ELSE <<>>),
                     OUTER_SUMMARY, "", "", NoLimit)

\* api/main.py _monthly_total_cached(date_from_n, date_to_n)
MonthlyTotal ==
    /\ phase = "input"
    /\ \E f \in {None, "2025-12-31"}, t \in {None, "2026-01-01", "2026-01-02"} :
          /\ date_from' = f
          /\ date_to' = t
          /\ LET where == (IF f # None THEN <<"production_date >= ?">> ELSE <<>>)
                          \o (IF f # None /\ t # None THEN <<" AND ">> ELSE <<>>)
                          \o (IF t # None THEN <<"production_date < ?">> ELSE <<>>)
                 params == (IF f # None THEN <<Chars(f)>> ELSE <<>>)
                           \o (IF t # None THEN <<Chars(t)>> ELSE <<>>)
             IN  RunAggregation("monthly_total", pick_targets(f, t), INNER_MONTHLY,
                     IF where = <<>> THEN <<"1=1">> ELSE where, params,
                     OUTER_MONTHLY, "year_month", "year_month", NoLimit)

\* api/main.py _summary_by_item_cached(date_from_n, date_to_n, item_code, limit)
SummaryByItem ==
    /\ phase = "input"
    /\ \E f \in {"2025-12-31", "2026-01-01"}, t \in {"2026-01-02"},
          item \in {None, "A"} :
          /\ date_from' = f
          /\ date_to' = t
          /\ RunAggregation("summary_by_item", pick_targets(f, t), INNER_BY_ITEM,
                <<"production_date >= ?", " AND ", "production_date < ?">>
                   \o (IF item # None THEN <<" AND ", "item_code = ?">> ELSE <<>>),
                <<Chars(f), Chars(t)>> \o (IF item # None THEN <<item>> ELSE <<>>),
                OUTER_BY_ITEM, "item_code", "total_production DESC", <<100>>)

\* api/main.py _monthly_by_item_cached(year_month, item_code, limit)
MonthlyByItem ==
    /\ phase = "input"
    /\ \E ym \in {None, "2025-12", "2026-01"}, item \in {None, "A"} :
          /\ date_from' = IF ym # None THEN MonthFirst(ym) ELSE None
          /\ date_to' = IF ym # None THEN NextMonthFirst(ym) ELSE None
          /\ LET t == IF ym # None THEN pick_targets(MonthFirst(ym), NextMonthFirst(ym))
                      ELSE DBTargets(TRUE, TRUE)
                 where == (IF ym # None THEN <<"substr(production_date, 1, 7) = ?">> ELSE <<>>)
                          \o (IF ym # None /\ item # None THEN <<" AND ">> ELSE <<>>)
                          \o (IF item # None THEN <<"item_code = ?">> ELSE <<>>)
                 params == (IF ym # None THEN <<Chars(ym)>> ELSE <<>>)
                           \o (IF item # None THEN <<item>> ELSE <<>>)
             IN  RunAggregation("monthly_by_item", t, INNER_MONTHLY_ITEM,
                     IF where = <<>> THEN <<"1=1">> ELSE where, params,
                     OUTER_MONTHLY_ITEM, "year_month, item_code",
                     "year_month DESC, total_production DESC", <<5000>>)

NextAgg ==
    \/ IngestArchive
    \/ IngestLive
    \/ GetProductionSummary
    \/ MonthlyTotal
    \/ SummaryByItem
    \/ MonthlyByItem

SpecAgg == InitAgg /\ [][NextAgg]_vars

(***************************************************************************)
(* Claims on summaries                                                     *)
(***************************************************************************)
\* Naive reference: the raw rows of both stores that match the caller's
\* WHERE, unioned (tagged with their store) and aggregated once.
NaiveRows ==
    {[source |-> "archive", row |-> r] : r \in
        {r \in Table(archive_rows) : WhereHolds(call.where, call.params, r, "archive")}}
    \cup
    {[source |-> "live", row |-> r] : r \in
        {r \in Table(live_rows) : WhereHolds(call.where, call.params, r, "live")}}

NaiveQuantity(x) == x.row.good_quantity

NaiveGroup(k) == {x \in NaiveRows : KeyOf(call.group_by, x.row) = k}

NaiveKeys ==
    IF call.group_by = "" THEN {<<>>} ELSE {KeyOf(call.group_by, x.row) : x \in NaiveRows}

NaiveTotals ==
    {[key |-> k,
      total |-> IF NaiveGroup(k) = {} THEN NULL ELSE <<SetSum(NaiveGroup(k), NaiveQuantity)>>,
      count |-> Cardinality(NaiveGroup(k))] : k \in NaiveKeys}

\* C5: the per-group totals (SUM of quantity, COUNT of records) returned by
\* pre-aggregate-then-merge equal those of unioning the raw rows of both
\* stores and aggregating once, for every store content, range and grouping.
C5_PreAggregateEqualsNaive ==
    (phase = "done" /\ call.name # "none" /\ result.status = "success") =>
        {[key |-> x.key, total |-> x.out.total, count |-> x.out.count] : x \in result.rows}
            = NaiveTotals

\* A group of three records merged from partial aggregates of both stores.
C5_Witness ==
    /\ phase = "done"
    /\ result.status = "success"
    /\ params_doubled = TRUE
    /\ \E x \in result.rows :
          /\ x.out.count = 3
          /\ \E y \in NaiveGroup(x.key) : y.source = "archive"
          /\ \E y \in NaiveGroup(x.key) : y.source = "live"

\* C6: for a group whose rows lie in both stores the reported average is
\* SUM(sum)/SUM(count), the average over the naive union of the rows.
C6_WeightedAverage ==
    (phase = "done" /\ call.name # "none" /\ result.status = "success"
        /\ call.name \in {"get_production_summary", "monthly_total", "monthly_by_item"}) =>
        \A x \in result.rows :
            ((\E y \in NaiveGroup(x.key) : y.source = "archive")
                /\ (\E y \in NaiveGroup(x.key) : y.source = "live"))
            => RatEq(x.out.average,
                     <<SetSum(NaiveGroup(x.key), NaiveQuantity), Cardinality(NaiveGroup(x.key))>>)

(***************************************************************************)
(* Cursor tokens as a state machine: the server encodes a position, the    *)
(* client may alter the token it received or send one of its own, and the  *)
(* server decodes what arrives.                                            *)
(***************************************************************************)
\* production_date, id and source values given to _encode_cursor; the third
\* date is a, quote, backslash and the fourth is e-acute, newline.
CursorDates == {Codes("2026-01-01"), Codes("2025-12-31"), <<97, 34, 92>>, <<233, 10>>}
CursorIds == {-3, 0, 12}
CursorSources == {Codes("archive"), Codes("live")}

\* Characters a client substitutes or appends: A ! =
TamperChars == {65, 33, 61}

\* Tokens no server issued: MQ== (1), W10= ([]), bnVsbA== (null), e30= ({}),
\* IiI= (""), MQ (incomplete quantum) and the empty token.
ForgedCursors ==
    {<<77, 81, 61, 61>>, <<87, 49, 48, 61>>, <<98, 110, 86, 115, 98, 65, 61, 61>>,
     <<101, 51, 48, 61>>, <<73, 105, 73, 61>>, <<77, 81>>, <<>>}

InitCursor ==
    /\ NoStores
    /\ phase = "input"
    /\ date_from = None
    /\ date_to = None
    /\ archive_exists = TRUE
    /\ union_args = None
    /\ targets = None
    /\ final_sql = None
    /\ params_doubled = None

\* next_cursor = _encode_cursor(last["production_date"], last["id"], last["source"])
EncodeCursor ==
    /\ phase = "input"
    /\ \E d \in CursorDates, id \in CursorIds, src \in CursorSources :
          /\ encoded' = [d |-> d, id |-> id, src |-> src]
          /\ cursor' = _encode_cursor(d, id, src)
    /\ issued' = TRUE
    /\ phase' = "encoded"
    /\ UNCHANGED <<date_from, date_to, archive_exists, targets, union_args, final_sql,
                   params_doubled, storeVars, call, query_params, result, cursor_data,
                   pageVars, cacheVars, serviceVars>>

\* The client changes one character of the token, drops its last character
\* or appends one.
Tamper ==
    /\ phase = "encoded"
    /\ issued
    /\ \/ \E i \in DOMAIN cursor, c \in TamperChars :
             c # cursor[i] /\ cursor' = [cursor EXCEPT ![i] = c]
       \/ cursor' = SubSeq(cursor, 1, Len(cursor) - 1)
       \/ \E c \in TamperChars : cursor' = Append(cursor, c)
    /\ issued' = FALSE
    /\ UNCHANGED <<routerVars, storeVars, call, query_params, result, encoded,
                   cursor_data, pageVars, cacheVars, serviceVars>>

\* The client sends a token of its own.
ForgeCursor ==
    /\ phase = "input"
    /\ cursor' \in ForgedCursors
    /\ phase' = "encoded"
    /\ UNCHANGED <<date_from, date_to, archive_exists, targets, union_args, final_sql,
                   params_doubled, storeVars, call, query_params, result, encoded, issued,
                   cursor_data, pageVars, cacheVars, serviceVars>>

\* cursor_data = _decode_cursor(cursor)
DecodeCursor ==
    /\ phase = "encoded"
    /\ cursor_data' = _decode_cursor(cursor)
    /\ phase' = "decoded"
    /\ UNCHANGED <<date_from, date_to, archive_exists, targets, union_args, final_sql,
                   params_doubled, storeVars, call, query_params, result, cursor, encoded,
                   issued, pageVars, cacheVars, serviceVars>>

NextCursor == EncodeCursor \/ Tamper \/ ForgeCursor \/ DecodeCursor

SpecCursor == InitCursor /\ [][NextCursor]_vars

(***************************************************************************)
(* Claims on cursor tokens                                                 *)
(***************************************************************************)
KEY_D == <<100>>
KEY_ID == <<105, 100>>
KEY_SRC == <<115, 114, 99>>

\* v is the dict {"d": c.d, "id": c.id, "src": c.src}
IsCursorOf(v, c) ==
    /\ v.t = "dict"
    /\ Len(v.members) = 3
    /\ HasKey(v, KEY_D) /\ HasKey(v, KEY_ID) /\ HasKey(v, KEY_SRC)
    /\ GetItem(v, KEY_D).t = "str" /\ GetItem(v, KEY_D).s = c.d
    /\ GetItem(v, KEY_ID).t = "int" /\ GetItem(v, KEY_ID).s = <<c.id>>
    /\ GetItem(v, KEY_SRC).t = "str" /\ GetItem(v, KEY_SRC).s = c.src

\* The token is exactly what _encode_cursor returns for some position.
WellFormedToken(token) ==
    LET v == _decode_cursor(token) IN
    /\ v.t = "dict"
    /\ Len(v.members) = 3
    /\ HasKey(v, KEY_D) /\ HasKey(v, KEY_ID) /\ HasKey(v, KEY_SRC)
    /\ GetItem(v, KEY_D).t = "str" /\ GetItem(v, KEY_ID).t = "int"
    /\ GetItem(v, KEY_SRC).t = "str"
    /\ _encode_cursor(GetItem(v, KEY_D).s, GetItem(v, KEY_ID).s[1], GetItem(v, KEY_SRC).s)
          = token

\* Decoding an issued token yields the encoded date, id and source.
CursorRoundTrip == (phase = "decoded" /\ issued) => IsCursorOf(cursor_data, encoded)

\* _decode_cursor raises nothing.
DecodeNeverRaises == phase = "decoded" => ~cursor_data.raised

\* Decoding a token that no _encode_cursor call returns yields None.
CorruptedIsNone ==
    (phase = "decoded" /\ ~WellFormedToken(cursor)) => cursor_data.t = "None"

\* C8: cursor tokens round-trip exactly (decode(encode(date, id, source)) is
\* the same date, id and source); decoding any corrupted token returns None
\* and never raises.
C8_CursorRoundTrip == CursorRoundTrip /\ DecodeNeverRaises /\ CorruptedIsNone

(***************************************************************************)
(* The records endpoint (api/main.py get_records): pages of the federated  *)
(* rows in the order production_date DESC, source DESC, id DESC.           *)
(***************************************************************************)
MaxRecords == 4

RecordDates == {"2026-01-01", "2026-01-02"}
PageSizes == {1, 2}
SELECT_RECORDS == "id, production_date, lot_number, item_code, item_name, good_quantity"

\* A row of the union: the selected columns and the source literal.
UnionRow(r, source) ==
    [source |-> source, id |-> r.id, production_date |-> r.production_date,
     item_code |-> r.item_code, good_quantity |-> r.good_quantity]

\* a sorts before b under ORDER BY production_date DESC, source DESC, id DESC
RowBefore(a, b) ==
    \/ StrLT(Chars(b.production_date), Chars(a.production_date))
    \/ a.production_date = b.production_date /\ StrLT(Chars(b.source), Chars(a.source))
    \/ a.production_date = b.production_date /\ a.source = b.source /\ a.id > b.id

RECURSIVE OrderRows(_)
OrderRows(S) ==
    Only({IF R = {} THEN <<>>
          ELSE Only({<<m>> \o OrderRows(R \ {m}) :
                     m \in {x \in R : \A y \in R \ {x} : RowBefore(x, y)}}) :
          R \in {S}})

\* Execution of a statement built by build_union_sql with the sort order of
\* get_records and a LIMIT (at most 5000 + 1).
ExecUnion(sql, params, attached) ==
    IF ExecFails(sql, params, attached) THEN [ok |-> FALSE, rows |-> <<>>]
    ELSE LET rows == UNION {{UnionRow(r, BranchSource(sql, i)) :
                                r \in BranchRows(sql, params, i)} : i \in FromAt(sql)}
         IN  Only({[ok |-> TRUE, rows |-> SubSeq(ordered, 1, Min({n, Len(ordered)}))] :
                   ordered \in {OrderRows(rows)},
                   n \in {CHOOSE k \in 1..5001 : IntStr(k) = sql[Len(sql)]}})

RECURSIVE JoinAnd(_)
JoinAnd(conds) ==
    IF Len(conds) <= 1 THEN conds ELSE <<Head(conds), " AND ">> \o JoinAnd(Tail(conds))

\* api/main.py get_records with the date filters, limit, offset and cursor;
\* the token is none or one the endpoint issued.
get_records(date_from_n, date_to_n, limit, offset, token) ==
    LET t == pick_targets(date_from_n, date_to_n)
        where == (IF date_from_n # None THEN <<"production_date >= ?">> ELSE <<>>)
                 \o (IF date_to_n # None THEN <<"production_date < ?">> ELSE <<>>)
        params == (IF date_from_n # None THEN <<Chars(date_from_n)>> ELSE <<>>)
                  \o (IF date_to_n # None THEN <<Chars(date_to_n)>> ELSE <<>>)
        Keyset(data) ==
            LET d == Text(GetItem(data, <<100>>).s)
                src == Text(GetItem(data, <<115, 114, 99>>).s)
            IN  <<d, d, src, d, src, GetItem(data, <<105, 100>>).s[1]>>
        Page(all_results, skip) ==
            SubSeq(all_results.rows, skip + 1, Min({skip + limit, Len(all_results.rows)}))
    IN  Only({Only({Only({Only({Only({
            [ok |-> all_results.ok, targets |-> t, sql |-> b.sql,
             params_doubled |-> b.params_doubled, query_params |-> qp,
             where |-> JoinAnd(where), params |-> params,
             cursor_data |-> data, data |-> page,
             has_more |-> Len(all_results.rows) > q.skip + limit,
             next_cursor |-> IF Len(all_results.rows) > q.skip + limit /\ page # <<>>
                             THEN _encode_cursor(Codes(page[Len(page)].production_date),
                                                 page[Len(page)].id,
                                                 Codes(page[Len(page)].source))
                             ELSE <<>>] :
            page \in {Page(all_results, q.skip)}}) :
            all_results \in {ExecUnion(b.sql, qp, Attached(t.use_archive))}}) :
            b \in {build_union_sql(SELECT_RECORDS,
                                   IF q.where = <<>> THEN <<"1=1">> ELSE JoinAnd(q.where),
                                   t, ORDER_DEFAULT, <<limit + q.skip + 1>>, TRUE)},
            qp \in {build_query_params(q.params, t, Chars(ARCHIVE_CUTOFF_DATE))}}) :
            q \in {IF Truthy(data)
                   THEN [where |-> Append(where, KEYSET), params |-> params \o Keyset(data),
                         skip |-> 0]
                   ELSE [where |-> where, params |-> params, skip |-> offset]}}) :
            data \in {IF token # <<>> THEN _decode_cursor(token) ELSE CursorNone}})

LoadArchive == AppendArchive(ArchiveDates, {"A"}, {2}, MaxRecords)

LoadLive == AppendLive(RecordDates, {"A"}, {2}, MaxRecords)

\* The response r of get_records reaches the client, which keeps next_cursor.
Respond(r) ==
    /\ targets' = r.targets
    /\ final_sql' = r.sql
    /\ params_doubled' = r.params_doubled
    /\ query_params' = r.query_params
    /\ call' = [name |-> "get_records", where |-> r.where, params |-> r.params, group_by |-> ""]
    /\ result' = [status |-> IF r.ok THEN "success" ELSE "error", rows |-> {}]
    /\ cursor_data' = r.cursor_data
    /\ results' = r.data
    /\ has_more' = r.has_more
    /\ cursor' = r.next_cursor
    /\ issued' = (r.next_cursor # <<>>)
    /\ fetched' = fetched \o r.data
    /\ npages' = npages + 1
    /\ phase' = IF r.has_more /\ r.ok THEN "paging" ELSE "paged"
    /\ UNCHANGED <<archive_exists, union_args, storeVars, encoded, cacheVars, serviceVars>>

\* GET /records?date_from=..&date_to=..&limit=P : the first page.
FirstPage ==
    /\ phase = "input"
    /\ \E f \in {None, "2026-01-01"}, t \in {None, "2025-12-31", "2026-01-01"},
          p \in PageSizes :
          /\ date_from' = f
          /\ date_to' = IF t # None THEN NextDay(t) ELSE None
          /\ page_size' = p
          /\ \E r \in {get_records(f, IF t # None THEN NextDay(t) ELSE None, p, 0, <<>>)} :
                Respond(r)

\* GET /records?..&cursor=next_cursor : the following page.
FollowingPage ==
    /\ phase = "paging"
    /\ UNCHANGED <<date_from, date_to, page_size>>
    /\ \E r \in {get_records(date_from, date_to, page_size, 0, cursor)} : Respond(r)

NextPage == LoadArchive \/ LoadLive \/ FirstPage \/ FollowingPage

SpecPage == InitAgg /\ [][NextPage]_vars

(***************************************************************************)
(* Claims on pagination                                                    *)
(***************************************************************************)
\* The rows of both stores that match the date filters of the request.
InRange(r) ==
    /\ date_from # None => StrGE(Chars(r.production_date), Chars(date_from))
    /\ date_to # None => StrLT(Chars(r.production_date), Chars(date_to))

Matching ==
    {UnionRow(r, "archive") : r \in {x \in Table(archive_rows) : InRange(x)}}
    \cup {UnionRow(r, "live") : r \in {x \in Table(live_rows) : InRange(x)}}

\* One full scan in the order (date DESC, source DESC, id DESC).
FullScan == OrderRows(Matching)

CeilDiv(n, p) == (n + p - 1) \div p

\* The pages so far are the beginning of the full scan: no duplicate, no
\* gap, in order.
PagesArePrefix ==
    phase \in {"paging", "paged"} =>
        /\ result.status = "success"
        /\ Len(fetched) <= Len(FullScan)
        /\ fetched = SubSeq(FullScan, 1, Len(fetched))
        /\ Len(results) <= page_size

\* C7: following next_cursor from the first page until has_more is false,
\* with page size P over N matching rows of both stores, the pages number
\* ceil(N/P) and together are exactly one full scan in the order
\* (date DESC, source DESC, id DESC): every row once, no duplicate, no gap.
C7_KeysetPagination ==
    /\ PagesArePrefix
    /\ phase = "paged" =>
          /\ fetched = FullScan
          /\ npages = CeilDiv(Len(FullScan), page_size)

\* C7 as the code has it: the same, but a request that matches no row is
\* answered with one empty page, not with none.
C7_KeysetPaginationOneEmptyPage ==
    /\ PagesArePrefix
    /\ phase = "paged" =>
          /\ fetched = FullScan
          /\ npages = IF FullScan = <<>> THEN 1 ELSE CeilDiv(Len(FullScan), page_size)

\* Three pages of one row over both stores, two rows sharing a date in a store.
C7_Witness ==
    /\ phase = "paged"
    /\ npages >= 3
    /\ fetched = FullScan
    /\ \E i, j \in DOMAIN fetched : fetched[i].source = "archive" /\ fetched[j].source = "live"
    /\ \E i, j \in DOMAIN fetched :
          /\ i # j
          /\ fetched[i].source = fetched[j].source
          /\ fetched[i].production_date = fetched[j].production_date

(***************************************************************************)
(* The result cache under requests that come one after the other, while    *)
(* the store files are written and time passes (shared/cache.py)           *)
(***************************************************************************)
InitCache ==
    /\ NoStores
    /\ phase = "input"
    /\ date_from = None
    /\ date_to = None
    /\ archive_exists = TRUE
    /\ union_args = None
    /\ targets = None
    /\ final_sql = None
    /\ params_doubled = None

\* Half a second passes.
Tick ==
    /\ now < MaxClock
    /\ now' = now + 1
    /\ UNCHANGED <<requestVars, live_mtime, archive_mtime, writes, _db_version_cache,
                   _db_version_timestamp, _api_cache, _cache_lock, pc, req, ret, first>>

\* Another process writes to the live store file, which takes the time of
\* the write as its modification time.
WriteLive ==
    /\ writes < MaxWrites
    /\ live_mtime # now
    /\ live_mtime' = now
    /\ writes' = writes + 1
    /\ UNCHANGED <<requestVars, now, archive_mtime, _db_version_cache,
                   _db_version_timestamp, _api_cache, _cache_lock, pc, req, ret, first>>

\* Another process writes to the archive store file, likewise.
WriteArchive ==
    /\ writes < MaxWrites
    /\ archive_mtime # now
    /\ archive_mtime' = now
    /\ writes' = writes + 1
    /\ UNCHANGED <<requestVars, now, live_mtime, _db_version_cache,
                   _db_version_timestamp, _api_cache, _cache_lock, pc, req, ret, first>>

\* wrapper, line 103: cache_key = _make_cache_key(prefix, *args, **kwargs)
MakeKey(t) ==
    /\ pc[t] = "idle"
    /\ \E c \in Calls, raises \in BOOLEAN :
          \E k \in {_make_cache_key(c.prefix, c.args, c.kwargs, raises)} :
             /\ _db_version_cache' = k.cache
             /\ _db_version_timestamp' = k.timestamp
             /\ req' = [req EXCEPT ![t] =
                           [NoReq EXCEPT !.call = c, !.cache_key = k.key,
                                         !.db_ver = k.db_ver, !.started = writes,
                                         !.second = /\ first.some
                                                    /\ first.call = c
                                                    /\ first.db_ver = k.db_ver]]
    /\ pc' = [pc EXCEPT ![t] = "lookup"]
    /\ ret' = NoRet
    /\ UNCHANGED <<requestVars, now, live_mtime, archive_mtime, writes, _api_cache,
                   _cache_lock, first>>

\* The wrapper returns the value of entry e to the caller of thread t.
Return(t, e, hit, fresh, kept) ==
    /\ ret' = [some |-> TRUE, second |-> req[t].second /\ fresh, kept |-> kept,
               hit |-> hit, same |-> (e.value = first.result),
               stale |-> (e.seen # req[t].started)]
    /\ req' = [req EXCEPT ![t] = NoReq]
    /\ pc' = [pc EXCEPT ![t] = "idle"]

\* wrapper, lines 106 and 114: "with _cache_lock:" takes the lock when no
\* thread holds it, and waits otherwise.
Acquire(t) ==
    /\ pc[t] \in {"lookup", "store"}
    /\ _cache_lock = <<>>
    /\ _cache_lock' = <<t>>
    /\ UNCHANGED <<requestVars, now, live_mtime, archive_mtime, writes, _db_version_cache,
                   _db_version_timestamp, _api_cache, pc, req, ret, first>>

\* The lookup of a wrapper that computes inside the "with" block: after a
\* miss the lock stays with the thread.
LookupKeepsLock(t) ==
    /\ pc[t] = "lookup"
    /\ _cache_lock = <<t>>
    /\ \E fresh \in {now < first.entry.expires},
          kept \in {\E i \in DOMAIN _api_cache : _api_cache[i] = first.entry} :
          IF cache_contains(_api_cache, req[t].cache_key, now)
          THEN \E g \in {cache_getitem(_api_cache, req[t].cache_key)} :
                  /\ _api_cache' = g.cache
                  /\ _cache_lock' = <<>>
                  /\ Return(t, g.entry, TRUE, fresh, kept)
                  /\ UNCHANGED first
          ELSE /\ req' = [req EXCEPT ![t].fresh = fresh, ![t].kept = kept]
               /\ pc' = [pc EXCEPT ![t] = "compute"]
               /\ UNCHANGED <<_api_cache, _cache_lock, ret, first>>
    /\ UNCHANGED <<requestVars, now, live_mtime, archive_mtime, writes, _db_version_cache,
                   _db_version_timestamp>>

\* wrapper, lines 107-108: the lookup under _cache_lock, which leaving the
\* block releases; the membership test and the read that follows it see the
\* same instant of the clock.
Lookup(t) ==
    /\ pc[t] = "lookup"
    /\ _cache_lock = <<t>>
    /\ _cache_lock' = <<>>
    /\ \E fresh \in {now < first.entry.expires},
          kept \in {\E i \in DOMAIN _api_cache : _api_cache[i] = first.entry} :
          IF cache_contains(_api_cache, req[t].cache_key, now)
          THEN \E g \in {cache_getitem(_api_cache, req[t].cache_key)} :
                  /\ _api_cache' = g.cache
                  /\ Return(t, g.entry, TRUE, fresh, kept)
                  /\ UNCHANGED first
          ELSE /\ req' = [req EXCEPT ![t].fresh = fresh, ![t].kept = kept]
               /\ pc' = [pc EXCEPT ![t] = "compute"]
               /\ UNCHANGED <<_api_cache, ret, first>>
    /\ UNCHANGED <<requestVars, now, live_mtime, archive_mtime, writes, _db_version_cache,
                   _db_version_timestamp>>

\* wrapper, line 111: result = func(*args, **kwargs), outside the lock.
Compute(t) ==
    /\ pc[t] = "compute"
    /\ req' = [req EXCEPT ![t].result = func(req[t].call)]
    /\ pc' = [pc EXCEPT ![t] = "store"]
    /\ UNCHANGED <<requestVars, now, live_mtime, archive_mtime, writes, _db_version_cache,
                   _db_version_timestamp, _api_cache, _cache_lock, ret, first>>

\* wrapper, lines 115-117: the store under _cache_lock, its release, and the
\* return.
Store(t) ==
    /\ pc[t] = "store"
    /\ _cache_lock = <<t>>
    /\ _cache_lock' = <<>>
    /\ \E e \in {[key |-> req[t].cache_key, value |-> req[t].result,
                  expires |-> now + ttl, seen |-> writes]} :
          /\ _api_cache' = cache_setitem(_api_cache, req[t].cache_key, e)
          /\ Return(t, e, FALSE, req[t].fresh, req[t].kept)
          /\ \/ UNCHANGED first
             \/ /\ ~first.some
                /\ first' = [some |-> TRUE, call |-> req[t].call, db_ver |-> req[t].db_ver,
                             result |-> e.value, entry |-> e]
    /\ UNCHANGED <<requestVars, now, live_mtime, archive_mtime, writes, _db_version_cache,
                   _db_version_timestamp>>

\* clear_api_cache(), called by a thread that serves no request: it takes
\* _cache_lock, clears and releases.
ClearApiCache ==
    /\ _cache_lock = <<>>
    /\ _api_cache # <<>>
    /\ _api_cache' = <<>>
    /\ UNCHANGED <<requestVars, now, live_mtime, archive_mtime, writes, _db_version_cache,
                   _db_version_timestamp, _cache_lock, pc, req, ret, first>>

NextCache ==
    \/ Tick
    \/ WriteLive
    \/ WriteArchive
    \/ ClearApiCache
    \/ \E t \in Sequential : MakeKey(t) \/ Acquire(t) \/ Lookup(t) \/ Compute(t) \/ Store(t)

SpecCache == InitCache /\ [][NextCache]_vars

\* The request workers of the server call cached endpoints at the same time.
NextCacheThreads ==
    \/ ClearApiCache
    \/ \E t \in Threads : MakeKey(t) \/ Acquire(t) \/ Lookup(t) \/ Compute(t) \/ Store(t)

SpecCacheThreads == InitCache /\ [][NextCacheThreads]_vars

(***************************************************************************)
(* Claims on the result cache                                              *)
(***************************************************************************)
\* The call that returned last is a second call: a call of the same
\* arguments had returned before it began, get_db_version gave both the same
\* fingerprint, and the entry of the first call had not expired at the
\* lookup of the second.
SecondCall == ret.some /\ ret.second

\* C9: a second call with identical arguments, the fingerprint unchanged
\* and the entry not expired, returns a result equal to the first call's
\* without invoking the wrapped function.
C9_CacheHit ==
    SecondCall => ret.hit /\ ret.same

\* C9 as the code has it: the same, provided the entry of the first call is
\* still in the cache at the lookup, neither evicted by the bound on the
\* number of entries, nor cleared, nor replaced by a concurrent call.
C9_CacheHitWhileEntryKept ==
    SecondCall /\ ret.kept => ret.hit /\ ret.same

\* A second call is served the entry the first call computed and stored.
C9_Witness ==
    /\ SecondCall
    /\ ret.kept
    /\ ret.hit
    /\ ret.same
    /\ first.entry.seen = first.result.content
    /\ Len(_api_cache) > 1

\* C10: once the modification time of a store file has changed, no call
\* returns an entry inserted before the change: a call that begins after the
\* change invokes the wrapped function again.
C10_InvalidationOnMtimeChange ==
    ret.some /\ ret.hit => ~ret.stale

\* A thread that is between MakeKey and its return and does not run func.
AtLock(t) == pc[t] \in {"lookup", "store"}

\* C11: _cache_lock is never held while func runs: a thread in a slow func
\* never keeps another thread from its lookup or its insertion (the lock is
\* free or the other thread's own, whatever the keys); so callers with the
\* same cold arguments may each run func, and each returns what it computed.
C11_ComputeOutsideLock ==
    /\ \A t \in Threads : pc[t] = "compute" => _cache_lock # <<t>>
    /\ \A t \in Threads :
          (AtLock(t) /\ \A u \in Threads \ {t} : ~AtLock(u)) => _cache_lock \in {<<>>, <<t>>}
    /\ \A t \in Threads : pc[t] = "store" => req[t].result = func(req[t].call)

\* One thread inserts what it computed while the other one, called with the
\* same cold arguments, is still in func.
C11_Witness ==
    \E t \in Threads, u \in Threads :
        /\ pc[t] = "compute"
        /\ pc[u] = "store"
        /\ _cache_lock = <<u>>
        /\ req[t].cache_key = req[u].cache_key

(***************************************************************************)
(* The connection cache as a state machine: the request workers call       *)
(* get_connection while other processes replace the store files.           *)
(***************************************************************************)
MaxMtime == 1

MaxReplacements == 2

InitConn ==
    /\ NoStores
    /\ phase = "input"
    /\ date_from = None
    /\ date_to = None
    /\ archive_exists \in BOOLEAN
    /\ union_args = None
    /\ targets = None
    /\ final_sql = None
    /\ params_doubled = None

\* Another process replaces the live store file by one of another
\* modification time or size.
ReplaceLive ==
    /\ writes < MaxReplacements
    /\ writes' = writes + 1
    /\ \E m \in 0..MaxMtime, s \in 0..MaxSize :
          /\ <<m, s>> # <<live_mtime, live_size>>
          /\ live_mtime' = m
          /\ live_size' = s
    /\ UNCHANGED <<routerVars, storeVars, call, query_params, result, cursorVars, pageVars,
                   now, archive_mtime, _db_version_cache, _db_version_timestamp,
                   _api_cache, _cache_lock, pc, req, ret, first,
                   archive_size, connections, _local, _all_connections, seen_size, conn_ret, sandboxVars, limiterVars, watcherVars>>

\* The same for the archive store file.
ReplaceArchive ==
    /\ archive_exists
    /\ writes < MaxReplacements
    /\ writes' = writes + 1
    /\ \E m \in 0..MaxMtime, s \in 0..MaxSize :
          /\ <<m, s>> # <<archive_mtime, archive_size>>
          /\ archive_mtime' = m
          /\ archive_size' = s
    /\ UNCHANGED <<routerVars, storeVars, call, query_params, result, cursorVars, pageVars,
                   now, live_mtime, _db_version_cache, _db_version_timestamp,
                   _api_cache, _cache_lock, pc, req, ret, first,
                   live_size, connections, _local, _all_connections, seen_size, conn_ret, sandboxVars, limiterVars, watcherVars>>

\* Thread t calls DBRouter.get_connection(use_archive, read_only).
GetConnection(t) ==
    /\ Len(connections) < MaxConnections
    /\ \E use_archive \in BOOLEAN, read_only \in ReadOnlyInputs,
          alive \in BOOLEAN, connect_fails \in BOOLEAN, attach_fails \in BOOLEAN :
          \E key \in {<<use_archive, read_only>>} :
          \E r \in {get_connection(_local[t][key], use_archive, read_only,
                                   alive, connect_fails, attach_fails)} :
             /\ connections' =
                   IF r.raised THEN r.connections
                   ELSE [r.connections EXCEPT ![r.conn].returned_to = @ \cup {t}]
             /\ _local' =
                   IF r.cached
                   THEN [_local EXCEPT ![t][key] =
                            [conn |-> <<r.conn>>, mtime |-> <<_get_db_mtime>>]]
                   ELSE _local
             /\ _all_connections' =
                   IF r.cached THEN Append(_all_connections, r.conn) ELSE _all_connections
             /\ seen_size' =
                   IF r.cached THEN [seen_size EXCEPT ![t][key] = FileSizes] ELSE seen_size
             /\ conn_ret' =
                   [some |-> TRUE, thread |-> t, key |-> key, raised |-> r.raised,
                    conn |-> r.conn, fresh |-> r.cached,
                    had |-> _local[t][key].conn # <<>>,
                    prev |-> IF _local[t][key].conn # <<>> THEN _local[t][key].conn[1] ELSE 0,
                    mtime_changed |-> /\ _local[t][key].conn # <<>>
                                      /\ _local[t][key].mtime # <<_get_db_mtime>>,
                    size_changed |-> /\ _local[t][key].conn # <<>>
                                     /\ seen_size[t][key] # FileSizes,
                    alive |-> /\ _local[t][key].conn # <<>>
                              /\ connections[_local[t][key].conn[1]].open
                              /\ alive]
    /\ UNCHANGED <<routerVars, storeVars, call, query_params, result, cursorVars, pageVars,
                   cacheVars, live_size, archive_size, sandboxVars, limiterVars, watcherVars>>

NextConn == ReplaceLive \/ ReplaceArchive \/ \E t \in Threads : GetConnection(t)

SpecConn == InitConn /\ [][NextConn]_vars

\* The call that has just ended found a handle cached and returned one.
Refreshable == conn_ret.some /\ conn_ret.had /\ ~conn_ret.raised

\* The old handle is closed and the handle returned has just been opened.
Refreshed ==
    /\ conn_ret.conn # conn_ret.prev
    /\ conn_ret.fresh
    /\ ~connections[conn_ret.prev].open
    /\ connections[conn_ret.conn].open

\* C12: when the (modification time, size) of either store file differs from
\* what was cached alongside a thread's handle, the thread's next
\* get_connection call for the same (use_archive, read_only) closes the old
\* handle and returns a freshly opened one; when it is unchanged and the
\* handle is alive, the same handle is returned.
C12_ConnectionRefresh ==
    Refreshable =>
        /\ (conn_ret.mtime_changed \/ conn_ret.size_changed) => Refreshed
        /\ (~conn_ret.mtime_changed /\ ~conn_ret.size_changed /\ conn_ret.alive)
              => conn_ret.conn = conn_ret.prev

\* What get_connection does: the same with the modification times alone.
RefreshOnMtimeChange ==
    Refreshable =>
        /\ conn_ret.mtime_changed => Refreshed
        /\ (~conn_ret.mtime_changed /\ conn_ret.alive) => conn_ret.conn = conn_ret.prev

\* The open handles get_connection has returned to thread t for key k.
OpenHandles(t, k) ==
    {h \in DOMAIN connections :
        connections[h].open /\ connections[h].key = k /\ t \in connections[h].returned_to}

\* C13: in every reachable state each thread has at most one open cached
\* handle per (use_archive, read_only), and a handle get_connection returned
\* to one thread is never returned to another one.
C13_HandlesThreadLocal ==
    /\ \A t \in Threads, k \in ConnKeys :
          /\ Cardinality(OpenHandles(t, k)) <= 1
          /\ OpenHandles(t, k) \subseteq
                {_local[t][k].conn[i] : i \in DOMAIN _local[t][k].conn}
    /\ \A h \in DOMAIN connections : Cardinality(connections[h].returned_to) <= 1

\* Two threads hold a handle each for the same key, one of them after a
\* refresh that closed its former handle.
C13_Witness ==
    \E k \in ConnKeys, h \in DOMAIN connections :
        /\ \A t \in Threads : Cardinality(OpenHandles(t, k)) = 1
        /\ ~connections[h].open
        /\ connections[h].key = k
        /\ connections[h].returned_to # {}

(***************************************************************************)
(* The query sandbox as a state machine: execute_custom_query validates    *)
(* the statement, opens a dedicated connection, hands the statement to a   *)
(* worker thread and waits for it, at most three seconds and one more.     *)
(***************************************************************************)
InitSandbox ==
    /\ NoStores
    /\ phase = "input"
    /\ date_from = None
    /\ date_to = None
    /\ archive_exists \in BOOLEAN
    /\ union_args = None
    /\ targets = None
    /\ final_sql = None
    /\ params_doubled = None

\* What sqlite3 says when a thread uses a connection another thread made:
\* sqlite3.connect(db_uri, uri=True, timeout=DB_TIMEOUT) leaves
\* check_same_thread at its default, True.
SAME_THREAD == "SQLite objects created in a thread can only be used in that same thread."
QUERY_TIMEOUT == "Query timeout (exceeded 3 seconds). Please simplify your query."
UNABLE_TO_OPEN == "unable to open database file"

ErrorResponse(message) == <<[status |-> "error", message |-> message]>>

\* execute_custom_query(sql) as far as thread.start(), or as far as the
\* return of a rejection, or of what the connecting or the attaching raised.
StartQuery ==
    /\ custom_query.pc = "none"
    /\ \E sql \in Queries, connect_fails \in BOOLEAN, attach_fails \in BOOLEAN :
       \E p \in {Prepared(sql)} :
          IF p.message # <<>>
          THEN /\ custom_query' = [pc |-> "returned", sql |-> sql, prepared |-> <<p>>,
                                   response |-> ErrorResponse(p.message)]
               /\ UNCHANGED <<query_conn, query_thread>>
          ELSE IF connect_fails
          THEN /\ custom_query' = [pc |-> "returned", sql |-> sql, prepared |-> <<p>>,
                                   response |-> ErrorResponse(<<UNABLE_TO_OPEN>>)]
               /\ UNCHANGED <<query_conn, query_thread>>
          ELSE IF p.use_archive /\ archive_exists /\ attach_fails
          THEN /\ custom_query' = [pc |-> "returned", sql |-> sql, prepared |-> <<p>>,
                                   response |-> ErrorResponse(<<UNABLE_TO_OPEN>>)]
               /\ query_conn' = <<[open |-> TRUE, interrupted |-> FALSE, attached |-> FALSE]>>
               /\ UNCHANGED query_thread
          ELSE /\ custom_query' = [pc |-> "join", sql |-> sql, prepared |-> <<p>>,
                                   response |-> <<>>]
               /\ query_conn' = <<[open |-> TRUE, interrupted |-> FALSE,
                                   attached |-> p.use_archive /\ archive_exists]>>
               /\ query_thread' = [state |-> "started", executed |-> <<>>]
    /\ UNCHANGED <<routerVars, storeVars, call, query_params, result, cursorVars, pageVars,
                   cacheVars, connVars, limiterVars, watcherVars, query_result>>

\* The worker thread: run_query(conn).  connection.execute(sql_clean) raises,
\* the connection being the caller thread's, and the exception is stored.
RunQuery ==
    /\ query_thread.state = "started"
    /\ query_thread' = [state |-> "finished",
                        executed |-> <<custom_query.prepared[1].statement>>]
    /\ query_result' = [rows |-> <<>>, error |-> <<SAME_THREAD>>]
    /\ UNCHANGED <<routerVars, storeVars, call, query_params, result, cursorVars, pageVars,
                   cacheVars, connVars, limiterVars, watcherVars, custom_query, query_conn>>

\* thread.join(timeout=3.0) is over: the worker has ended, and the call
\* closes the connection and returns; or it has not, and the call interrupts
\* the connection.
Join ==
    /\ custom_query.pc = "join"
    /\ IF query_thread.state = "finished"
       THEN /\ query_conn' = <<[query_conn[1] EXCEPT !.open = FALSE]>>
            /\ custom_query' =
                  [custom_query EXCEPT
                      !.pc = "returned",
                      !.response =
                          IF query_result.error # <<>> THEN ErrorResponse(query_result.error)
                          ELSE <<[status |-> "success", row_count |-> Len(query_result.rows),
                                  data |-> query_result.rows]>>]
       ELSE /\ query_conn' = <<[query_conn[1] EXCEPT !.interrupted = TRUE]>>
            /\ custom_query' = [custom_query EXCEPT !.pc = "interrupted"]
    /\ UNCHANGED <<routerVars, storeVars, call, query_params, result, cursorVars, pageVars,
                   cacheVars, connVars, limiterVars, watcherVars, query_thread, query_result>>

\* thread.join(timeout=1.0) is over, the worker ended or not: the call closes
\* the connection and returns the timeout.
JoinInterrupted ==
    /\ custom_query.pc = "interrupted"
    /\ query_conn' = <<[query_conn[1] EXCEPT !.open = FALSE]>>
    /\ custom_query' = [custom_query EXCEPT !.pc = "returned",
                                            !.response = ErrorResponse(<<QUERY_TIMEOUT>>)]
    /\ UNCHANGED <<routerVars, storeVars, call, query_params, result, cursorVars, pageVars,
                   cacheVars, connVars, limiterVars, watcherVars, query_thread, query_result>>

NextSandbox == StartQuery \/ RunQuery \/ Join \/ JoinInterrupted

SpecSandbox == InitSandbox /\ [][NextSandbox]_vars

\* The call was rejected by one of the four validations.
Rejected ==
    /\ custom_query.response # <<>>
    /\ custom_query.response[1].status = "error"
    /\ custom_query.response[1].message[1]
          \in {SEMICOLON_DETECTED, ONLY_SELECT, FORBIDDEN_KEYWORD, MUST_REFERENCE}

\* C14: a statement reaches connection.execute only if its text without the
\* comments has no semicolon, begins with SELECT, has none of the denylisted
\* keywords anywhere in it and names production_records, the case of the
\* letters aside; and a rejected call has opened no connection and started
\* no worker.
C14_SandboxSafety ==
    /\ query_thread.executed # <<>> =>
          Only({Only({
              /\ ~In(<<";">>, c)
              /\ StartsWith(u, 1, SELECT)
              /\ \A i \in DOMAIN forbidden : ~In(forbidden[i], u)
              /\ In(PRODUCTION_RECORDS, u)
              /\ query_thread.executed[1] \in {c, c \o LIMIT_1000} :
              u \in {upper(c)}}) :
              c \in {_strip_sql_comments(strip(custom_query.sql))}})
    /\ Rejected => query_conn = <<>> /\ query_thread.state = "none"

\* A statement that had a comment with a semicolon in it has reached
\* connection.execute.
C14_Witness ==
    /\ query_thread.executed # <<>>
    /\ In(<<"/", "*", " ", ";", " ", "*", "/">>, custom_query.sql)

DROP == forbidden[1]

PRAGMA == forbidden[9]

\* The message of the response, <<>> while there is none.
Message == IF custom_query.response = <<>> THEN <<>> ELSE custom_query.response[1].message

\* C15 as stated: a query that has a semicolon, DROP or PRAGMA anywhere in
\* it, inside a comment too, is rejected, and with a reason that matches:
\* the semicolon reason when it has a semicolon, the forbidden-keyword reason
\* naming DROP or PRAGMA when it has that keyword.
C15_RejectedWithMatchingReason ==
    custom_query.pc = "returned" =>
        Only({
            (In(<<";">>, custom_query.sql) \/ In(DROP, u) \/ In(PRAGMA, u)) =>
                \/ In(<<";">>, custom_query.sql) /\ Message = <<SEMICOLON_DETECTED>>
                \/ In(DROP, u) /\ Message = <<FORBIDDEN_KEYWORD, DROP>>
                \/ In(PRAGMA, u) /\ Message = <<FORBIDDEN_KEYWORD, PRAGMA>> :
            u \in {upper(custom_query.sql)}})

\* C15 as the function has it: what counts is the text without the
\* comments.  A semicolon in it gives the semicolon reason; without one, a
\* text that has DROP or PRAGMA gives the only-SELECT reason unless it begins
\* with SELECT, and else the forbidden-keyword reason that names the first
\* keyword of the denylist, in the order of the list, that the text has.
C15_RejectedWithFirstReason ==
    custom_query.pc = "returned" =>
        Only({Only({
            /\ In(<<";">>, c) => Message = <<SEMICOLON_DETECTED>>
            /\ (~In(<<";">>, c) /\ (In(DROP, u) \/ In(PRAGMA, u))) =>
                  IF ~StartsWith(u, 1, SELECT) THEN Message = <<ONLY_SELECT>>
                  ELSE /\ Message[1] = FORBIDDEN_KEYWORD
                       /\ In(Message[2], u)
                       /\ \E i \in DOMAIN forbidden :
                             /\ forbidden[i] = Message[2]
                             /\ \A j \in 1..(i - 1) : ~In(forbidden[j], u)
                       /\ In(DROP, u) => Message[2] = DROP :
            u \in {upper(c)}}) :
            c \in {_strip_sql_comments(strip(custom_query.sql))}})

\* A query with a semicolon in a comment only is rejected for its PRAGMA.
C15_Witness ==
    /\ custom_query.pc = "returned"
    /\ Message = <<FORBIDDEN_KEYWORD, PRAGMA>>
    /\ In(<<";">>, custom_query.sql)

\* The query as SQLite reads it, its comments left out, passes the four
\* validations.
ValidWithoutComments(sql) ==
    Only({Validation(w, upper(w)) = <<>> : w \in {strip(WithoutComments(sql))}})

\* C16: a query all of whose semicolons are inside block or line comments,
\* and which is a valid SELECT on production_records otherwise, is not
\* rejected with the semicolon reason.
C16_CommentSemicolonNotRejected ==
    (/\ custom_query.pc = "returned"
     /\ SemicolonOnlyInComments(custom_query.sql)
     /\ ValidWithoutComments(custom_query.sql))
        => Message # <<SEMICOLON_DETECTED>>

\* The text ends inside a block comment that nothing closes.
EndsInBlockComment(s) ==
    Only({k[Len(s) + 2] = "comment" : k \in {Tokenize(s \o <<"\n", "*", "/">>, 1)}})

\* The same for the queries whose block comments are all closed.
ClosedCommentSemicolonNotRejected ==
    (/\ custom_query.pc = "returned"
     /\ SemicolonOnlyInComments(custom_query.sql)
     /\ ValidWithoutComments(custom_query.sql)
     /\ ~EndsInBlockComment(custom_query.sql))
        => Message # <<SEMICOLON_DETECTED>>

\* C17: a query that passes the validations and has no LIMIT clause gets
\* " LIMIT 1000" appended and is executed with that cap in force: the
\* statement the worker runs is the capped one, it runs, and a success holds
\* at most 1000 rows.
C17_ImplicitCap ==
    (/\ custom_query.prepared # <<>>
     /\ custom_query.prepared[1].message = <<>>
     /\ ~HasLimitClause(custom_query.sql))
        => /\ custom_query.prepared[1].statement
                 = custom_query.prepared[1].sql_clean \o LIMIT_1000
           /\ HasLimitClause(custom_query.prepared[1].statement)
           /\ query_thread.state = "finished" =>
                 /\ query_thread.executed = <<custom_query.prepared[1].statement>>
                 /\ query_result.error = <<>>
           /\ (custom_query.response # <<>> /\ custom_query.response[1].status = "success")
                 => custom_query.response[1].row_count <= 1000

\* The cap alone: such a query is handed to the connection with a LIMIT
\* clause in force.
CapInForce ==
    (/\ custom_query.prepared # <<>>
     /\ custom_query.prepared[1].message = <<>>
     /\ ~HasLimitClause(custom_query.sql))
        => HasLimitClause(custom_query.prepared[1].statement)

\* The cap for the queries that neither have the letters LIMIT anywhere nor
\* end inside a block comment.
CapAppended ==
    (/\ custom_query.prepared # <<>>
     /\ custom_query.prepared[1].message = <<>>
     /\ ~In(LIMIT, upper(custom_query.sql))
     /\ ~EndsInBlockComment(custom_query.sql))
        => /\ custom_query.prepared[1].statement
                 = custom_query.prepared[1].sql_clean \o LIMIT_1000
           /\ HasLimitClause(custom_query.prepared[1].statement)

\* The call has returned after its worker outlasted the three seconds.
ReturnedAfterTimeout ==
    /\ custom_query.pc = "returned"
    /\ query_conn # <<>>
    /\ query_conn[1].interrupted

\* C18: a call whose worker outlasts the timeout returns the timeout error,
\* with the connection interrupted and closed and with the worker ended, so
\* that neither is in use any more.
C18_TimeoutLeavesNothing ==
    ReturnedAfterTimeout =>
        /\ Message = <<QUERY_TIMEOUT>>
        /\ ~query_conn[1].open
        /\ query_thread.state = "finished"

\* What of it does not depend on the worker: the timeout error, and the
\* connection interrupted and closed.
TimeoutClosesConnection ==
    ReturnedAfterTimeout => Message = <<QUERY_TIMEOUT>> /\ ~query_conn[1].open

\* C39: every return of execute_custom_query that comes after the read-only
\* connection was opened has closed it: on success, on a query error, on
\* timeout, and when validating or attaching the archive store fails.
C39_EveryReturnCloses ==
    (custom_query.pc = "returned" /\ query_conn # <<>>) => ~query_conn[1].open

\* What holds: the returns that come after thread.start().
ReturnAfterStartCloses ==
    (custom_query.pc = "returned" /\ query_thread.state # "none") => ~query_conn[1].open

(***************************************************************************)
(* The rate limiter as a state machine: threads call is_allowed for the    *)
(* clients while the time passes.                                          *)
(***************************************************************************)
MaxTime == 4

MaxCalls == 4

InitLimiter ==
    /\ NoStores
    /\ phase = "input"
    /\ date_from = None
    /\ date_to = None
    /\ archive_exists = TRUE
    /\ union_args = None
    /\ targets = None
    /\ final_sql = None
    /\ params_doubled = None

\* Half a second passes.
Sleep ==
    /\ now < MaxTime
    /\ now' = now + 1
    /\ UNCHANGED <<routerVars, storeVars, call, query_params, result, cursorVars, pageVars,
                   live_mtime, archive_mtime, writes, _db_version_cache,
                   _db_version_timestamp, _api_cache, _cache_lock, pc, req, ret, first,
                   connVars, sandboxVars, limiterVars, watcherVars>>

\* The calls that have begun.
Begun == Len(calls) + Cardinality({t \in Callers : limiter_pc[t] # "idle"})

\* is_allowed(ip) on thread t with the lock left aside.
EnterWithoutLock(t) ==
    /\ limiter_pc[t] = "idle"
    /\ Begun < MaxCalls
    /\ \E ip \in Clients :
          /\ limiter_local' = [limiter_local EXCEPT ![t] =
                                  <<[ip |-> ip, current_time |-> now]>>]
          /\ _requests' = [c \in DOMAIN _requests \cup {ip} |->
                              IF c = ip THEN Unexpired(Requests(ip), now - Window)
                              ELSE _requests[c]]
    /\ limiter_pc' = [limiter_pc EXCEPT ![t] = "check"]
    /\ UNCHANGED <<routerVars, storeVars, call, query_params, result, cursorVars, pageVars,
                   cacheVars, connVars, sandboxVars, watcherVars, _lock, calls, limiter_ret>>

\* Thread t calls is_allowed(ip): it takes the lock, reads the time and
\* drops the client's expired timestamps.
Enter(t) ==
    /\ limiter_pc[t] = "idle"
    /\ Begun < MaxCalls
    /\ _lock = <<>>
    /\ _lock' = <<t>>
    /\ \E ip \in Clients :
          /\ limiter_local' = [limiter_local EXCEPT ![t] =
                                  <<[ip |-> ip, current_time |-> now]>>]
          /\ _requests' = [c \in DOMAIN _requests \cup {ip} |->
                              IF c = ip THEN Unexpired(Requests(ip), now - Window)
                              ELSE _requests[c]]
    /\ limiter_pc' = [limiter_pc EXCEPT ![t] = "check"]
    /\ UNCHANGED <<routerVars, storeVars, call, query_params, result, cursorVars, pageVars,
                   cacheVars, connVars, sandboxVars, watcherVars, calls, limiter_ret>>

\* The call of thread t returns: its locals are gone and the lock is free.
IsAllowedReturns(t, value) ==
    /\ calls' = Append(calls, [thread |-> t, ip |-> limiter_local[t][1].ip,
                               time |-> limiter_local[t][1].current_time,
                               result |-> value])
    /\ limiter_pc' = [limiter_pc EXCEPT ![t] = "idle"]
    /\ limiter_local' = [limiter_local EXCEPT ![t] = <<>>]
    /\ _lock' = <<>>

\* The test with one request more let through.
CheckAtMost(t) ==
    /\ limiter_pc[t] = "check"
    /\ IF Len(Requests(limiter_local[t][1].ip)) <= max_requests
       THEN /\ limiter_pc' = [limiter_pc EXCEPT ![t] = "record"]
            /\ UNCHANGED <<_lock, limiter_local, calls>>
       ELSE IsAllowedReturns(t, FALSE)
    /\ UNCHANGED <<routerVars, storeVars, call, query_params, result, cursorVars, pageVars,
                   cacheVars, connVars, sandboxVars, watcherVars, _requests, limiter_ret>>

\* The test with the rejected request recorded as well.
CheckRecordingRejected(t) ==
    /\ limiter_pc[t] = "check"
    /\ IF Len(Requests(limiter_local[t][1].ip)) < max_requests
       THEN /\ limiter_pc' = [limiter_pc EXCEPT ![t] = "record"]
            /\ UNCHANGED <<_lock, limiter_local, calls, _requests>>
       ELSE /\ IsAllowedReturns(t, FALSE)
            /\ _requests' = [_requests EXCEPT ![limiter_local[t][1].ip] =
                                Append(@, limiter_local[t][1].current_time)]
    /\ UNCHANGED <<routerVars, storeVars, call, query_params, result, cursorVars, pageVars,
                   cacheVars, connVars, sandboxVars, watcherVars, limiter_ret>>

\* if len(self._requests[ip]) < self.max_requests, and return False if not.
Check(t) ==
    /\ limiter_pc[t] = "check"
    /\ IF Len(Requests(limiter_local[t][1].ip)) < max_requests
       THEN /\ limiter_pc' = [limiter_pc EXCEPT ![t] = "record"]
            /\ UNCHANGED <<_lock, limiter_local, calls>>
       ELSE IsAllowedReturns(t, FALSE)
    /\ UNCHANGED <<routerVars, storeVars, call, query_params, result, cursorVars, pageVars,
                   cacheVars, connVars, sandboxVars, watcherVars, _requests, limiter_ret>>

\* self._requests[ip].append(current_time) and return True.
Record(t) ==
    /\ limiter_pc[t] = "record"
    /\ _requests' = [_requests EXCEPT ![limiter_local[t][1].ip] =
                        Append(@, limiter_local[t][1].current_time)]
    /\ IsAllowedReturns(t, TRUE)
    /\ UNCHANGED <<routerVars, storeVars, call, query_params, result, cursorVars, pageVars,
                   cacheVars, connVars, sandboxVars, watcherVars, limiter_ret>>

NextLimiter == Sleep \/ \E t \in Callers : Enter(t) \/ Check(t) \/ Record(t)

SpecLimiter == InitLimiter /\ [][NextLimiter]_vars

\* The requests of a client among cs that were admitted with a timestamp
\* inside the window that ends at time T.
AdmittedInWindow(cs, ip, T) ==
    {i \in DOMAIN cs : /\ cs[i].ip = ip
                       /\ cs[i].result
                       /\ cs[i].time > T - Window
                       /\ cs[i].time <= T}

\* C19: a call is admitted if and only if fewer than max_requests requests
\* of its client admitted before it have a timestamp inside the window that
\* ends at its time; so no window holds more than max_requests admitted
\* requests of one client.
C19_SlidingWindow ==
    /\ \A k \in DOMAIN calls :
          calls[k].result <=>
              Cardinality(AdmittedInWindow(SubSeq(calls, 1, k - 1), calls[k].ip, calls[k].time))
                  < max_requests
    /\ \A ip \in Clients, T \in 0..MaxTime :
          Cardinality(AdmittedInWindow(calls, ip, T)) <= max_requests

\* A client was admitted twice, rejected as the third inside the window, and
\* admitted again when the oldest of its timestamps had left the window.
C19_Witness ==
    /\ Len(calls) = 4
    /\ \A k \in 1..4 : calls[k].ip = calls[1].ip
    /\ calls[1].result /\ calls[2].result /\ ~calls[3].result /\ calls[4].result
    /\ calls[3].time < calls[1].time + Window
    /\ calls[4].time = calls[1].time + Window
    /\ calls[4].time < calls[2].time + Window

\* The calls for a client that have returned.
CallsOf(ip) == {i \in DOMAIN calls : calls[i].ip = ip}

\* C20: of the calls for one client that fall inside one window, whichever
\* threads made them and however their steps interleaved, exactly
\* min(N, max_requests) have returned True, N being their number.
C20_AtomicCheckAndRecord ==
    \A ip \in Clients :
        (\A i, j \in CallsOf(ip) : calls[i].time - calls[j].time < Window)
            => Cardinality({i \in CallsOf(ip) : calls[i].result})
                  = IF Cardinality(CallsOf(ip)) < max_requests
                    THEN Cardinality(CallsOf(ip)) ELSE max_requests

\* Three threads have called for the same client at the same time: two were
\* admitted and the third was not.
C20_Witness ==
    /\ Len(calls) = 3
    /\ \A k \in 1..3 : calls[k].ip = calls[1].ip /\ calls[k].time = calls[1].time
    /\ {calls[k].thread : k \in 1..3} = Callers
    /\ calls[1].result /\ calls[2].result /\ ~calls[3].result

(***************************************************************************)
(* The other methods of the limiter, called by one thread between its      *)
(* is_allowed calls.                                                       *)
(***************************************************************************)
\* int(x) for a time span of so many half seconds.
IntSeconds(ticks) ==
    IF ticks >= 0 THEN ticks \div TicksPerSecond ELSE -((-ticks) \div TicksPerSecond)

\* min(valid_timestamps)
Oldest(timestamps) == Min({timestamps[i] : i \in DOMAIN timestamps})

\* RateLimiter.retry_after on the client's timestamps at current_time.
retry_after(timestamps, current_time) ==
    Only({IF valid_timestamps = <<>> THEN 0
          ELSE Max({1, IntSeconds(Oldest(valid_timestamps) + Window - current_time) + 1}) :
          valid_timestamps \in {Unexpired(timestamps, current_time - Window)}})

\* Reading self._requests[ip] gives a new client an empty list.
Touched(ip) ==
    [c \in DOMAIN _requests \cup {ip} |-> IF c \in DOMAIN _requests THEN _requests[c] ELSE <<>>]

\* Thread t calls retry_after(ip).
RetryAfter(t) ==
    /\ limiter_pc[t] = "idle"
    /\ _lock = <<>>
    /\ \E ip \in Clients :
          /\ _requests' = Touched(ip)
          /\ limiter_ret' =
                [method |-> "retry_after", ip |-> ip, time |-> now,
                 value |-> retry_after(Requests(ip), now),
                 blocked |-> Len(Unexpired(Requests(ip), now - Window)) >= max_requests]
    /\ UNCHANGED <<routerVars, storeVars, call, query_params, result, cursorVars, pageVars,
                   cacheVars, connVars, sandboxVars, watcherVars, _lock, limiter_pc, limiter_local, calls>>

\* The count with the expired timestamps taken in.
RemainingCountingExpired(timestamps, current_time) ==
    Max({0, max_requests - Len(timestamps)})

\* RateLimiter.remaining on the client's timestamps at current_time.
remaining(timestamps, current_time) ==
    Max({0, max_requests - Len(Unexpired(timestamps, current_time - Window))})

\* Thread t calls remaining(ip).
Remaining(t) ==
    /\ limiter_pc[t] = "idle"
    /\ _lock = <<>>
    /\ \E ip \in Clients :
          /\ _requests' = Touched(ip)
          /\ limiter_ret' =
                [method |-> "remaining", ip |-> ip, time |-> now,
                 value |-> remaining(Requests(ip), now)]
    /\ UNCHANGED <<routerVars, storeVars, call, query_params, result, cursorVars, pageVars,
                   cacheVars, connVars, sandboxVars, watcherVars, _lock, limiter_pc, limiter_local, calls>>

\* cleanup(max_ips: int = 10000)
max_ips_default == 10000

\* The values of max_ips cleanup is called with.
MaxIpsInputs == {max_ips_default, 1}

\* The orders self._requests.items() goes through the clients in.
Orders(S) == {o \in [1..Cardinality(S) -> S] : \A e \in S : \E i \in DOMAIN o : o[i] = e}

\* One expired timestamp is enough.
SomeExpired(timestamps, cutoff_time) ==
    timestamps = <<>> \/ \E i \in DOMAIN timestamps : timestamps[i] <= cutoff_time

\* all(ts <= cutoff_time for ts in timestamps)
AllExpired(timestamps, cutoff_time) ==
    \A i \in DOMAIN timestamps : timestamps[i] <= cutoff_time

\* The clients the loop of cleanup reaches before its break, which it takes
\* at the first one with more than max_ips timestamps.
Scanned(order, max_ips) ==
    {order[j] : j \in {i \in DOMAIN order :
                          \A k \in 1..i : Len(_requests[order[k]]) <= max_ips}}

\* ips_to_remove of cleanup when items() yields the clients in this order.
ips_to_remove(order, cutoff_time, max_ips) ==
    {ip \in Scanned(order, max_ips) : AllExpired(_requests[ip], cutoff_time)}

\* Thread t calls cleanup(max_ips).  The order of the dictionary is the
\* order the keys were inserted in, any order here.
CleanupWith(t, max_ips) ==
    /\ limiter_pc[t] = "idle"
    /\ _lock = <<>>
    /\ \E order \in Orders(DOMAIN _requests) :
          /\ _requests' = [c \in DOMAIN _requests \ ips_to_remove(order, now - Window, max_ips)
                              |-> _requests[c]]
          /\ limiter_ret' =
                [method |-> "cleanup", max_ips |-> max_ips, time |-> now,
                 value |-> Cardinality(ips_to_remove(order, now - Window, max_ips))]
    /\ UNCHANGED <<routerVars, storeVars, call, query_params, result, cursorVars, pageVars,
                   cacheVars, connVars, sandboxVars, watcherVars, _lock, limiter_pc, limiter_local, calls>>

Cleanup(t) == \E max_ips \in MaxIpsInputs : CleanupWith(t, max_ips)

SingleCaller == {"t1"}

NextLimiterMethods ==
    \/ Sleep
    \/ \E t \in SingleCaller :
          Enter(t) \/ Check(t) \/ Record(t) \/ RetryAfter(t) \/ Remaining(t) \/ Cleanup(t)

SpecLimiterMethods == InitLimiter /\ [][NextLimiterMethods]_vars

\* The client has been rejected by an is_allowed call.
WasRejected(ip) == \E k \in DOMAIN calls : calls[k].ip = ip /\ ~calls[k].result

\* C21: retry_after for a client that is_allowed has rejected and that is
\* still blocked returns a number from 1 to window_seconds.
C21_RetryAfterInRange ==
    (/\ limiter_ret.method = "retry_after"
     /\ limiter_ret.blocked
     /\ WasRejected(limiter_ret.ip))
        => limiter_ret.value \in 1..window_seconds

\* What holds of it: the number is from 1 to window_seconds + 1, and
\* window_seconds + 1 only at the very time of the oldest request.
RetryAfterAtMostOneMore ==
    (/\ limiter_ret.method = "retry_after"
     /\ limiter_ret.blocked)
        => /\ limiter_ret.value \in 1..(window_seconds + 1)
           /\ limiter_ret.value = window_seconds + 1
                 => \E k \in DOMAIN calls :
                       /\ calls[k].ip = limiter_ret.ip
                       /\ calls[k].result
                       /\ calls[k].time = limiter_ret.time

\* Every call of is_allowed that has returned was admitted if and only if
\* fewer than max_requests requests of its client admitted before it have a
\* timestamp inside the window that ends at its time.
AdmittedByHistory ==
    \A k \in DOMAIN calls :
        calls[k].result <=>
            Cardinality(AdmittedInWindow(SubSeq(calls, 1, k - 1), calls[k].ip, calls[k].time))
                < max_requests

\* A call of remaining returns max_requests less the admitted requests of
\* the client inside the window, 0 at least, and leaves the timestamps of
\* every client as they are.
RemainingStep ==
    \A t \in SingleCaller :
        Remaining(t) =>
            /\ limiter_ret'.value =
                  Max({0, max_requests
                            - Cardinality(AdmittedInWindow(calls, limiter_ret'.ip, now))})
            /\ limiter_ret'.value >= 0
            /\ \A c \in Clients : Requests(c)' = Requests(c)

\* C31: remaining(client) returns max_requests minus the number of admitted
\* requests of the client inside the window, never below 0, and records
\* nothing: with calls of remaining in between, every is_allowed call has the
\* outcome the admitted requests before it give it.
C31_RemainingRecordsNothing == []AdmittedByHistory /\ [][RemainingStep]_vars

\* A client with both requests of the window admitted has asked for the
\* remaining number, got 0, was rejected, asked again when the older request
\* had expired, and was admitted.
C31_Witness ==
    /\ Len(calls) = 4
    /\ \A k \in 1..4 : calls[k].ip = calls[1].ip
    /\ calls[1].result /\ calls[2].result /\ ~calls[3].result /\ calls[4].result
    /\ limiter_ret.method = "remaining"
    /\ limiter_ret.ip = calls[1].ip
    /\ limiter_ret.value = 1
    /\ limiter_ret.time = calls[1].time + Window
    /\ calls[4].time = limiter_ret.time
    /\ calls[2].time > calls[1].time

\* What a later call at time T would be answered for a client with these
\* timestamps.
LaterAnswers(timestamps, T) ==
    <<Len(Unexpired(timestamps, T - Window)) < max_requests,
      remaining(timestamps, T),
      retry_after(timestamps, T)>>

\* A call of cleanup() removes the clients with no timestamp inside the
\* window and no others, returns their number, and changes no later answer.
CleanupStep ==
    \A t \in SingleCaller :
        CleanupWith(t, max_ips_default) =>
            /\ DOMAIN _requests' =
                  {c \in DOMAIN _requests : Unexpired(_requests[c], now - Window) # <<>>}
            /\ limiter_ret'.value = Cardinality(DOMAIN _requests \ DOMAIN _requests')
            /\ \A c \in DOMAIN _requests' : _requests'[c] = _requests[c]
            /\ \A c \in Clients, T \in now..MaxTime :
                  LaterAnswers(Requests(c)', T) = LaterAnswers(Requests(c), T)

StoredAreAdmitted ==
    \A ip \in DOMAIN _requests : \A i \in DOMAIN _requests[ip] :
        \E k \in DOMAIN calls :
            calls[k].ip = ip /\ calls[k].result /\ calls[k].time = _requests[ip][i]

\* A call of is_allowed leaves of the timestamps of its client those that
\* have not expired, and until it appends its own none is changed, by the
\* call itself, which may return False meanwhile, or by another thread.
RejectedStep ==
    \A t \in Callers :
        /\ Enter(t) =>
              \A c \in Clients :
                  Requests(c)' = IF c = limiter_local'[t][1].ip
                                 THEN Unexpired(Requests(c), now - Window)
                                 ELSE Requests(c)
        /\ (limiter_pc[t] = "check" /\ limiter_pc'[t] # "record") => _requests' = _requests

FileStates(store) == IF store = "live" THEN {<<1, 0>>, <<2, 0>>} ELSE {<<1, 0>>, <<1, 1>>}

\* The indexes a rewritten store comes with.
IndexInputs ==
    {{"idx_production_date", "idx_item_code", "idx_item_date", OTHER_INDEX},
     {"idx_item_code", OTHER_INDEX}}

WatcherInit(threads) ==
    /\ archive_rows = <<>>
    /\ live_rows = <<>>
    /\ NoPaging
    /\ now = 0
    /\ live_mtime = 1
    /\ archive_mtime = 1
    /\ writes = 0
    /\ _db_version_cache = <<>>
    /\ _db_version_timestamp = 0
    /\ _api_cache = <<>>
    /\ _cache_lock = <<>>
    /\ pc = [t \in Threads |-> "idle"]
    /\ req = [t \in Threads |-> NoReq]
    /\ ret = NoRet
    /\ first = NoFirst
    /\ NoConnections
    /\ NoSandbox
    /\ NoLimiter
    /\ db_states = <<>>
    /\ log_queue = <<>>
    /\ cycle = [t \in threads |-> NoCycle]
    /\ indexes \in [Stores -> IndexInputs]
    /\ heal_ret = NoHeal
    /\ running = "none"
    /\ call = NoCall
    /\ query_params = None
    /\ result = NoResult
    /\ phase = "input"
    /\ date_from = None
    /\ date_to = None
    /\ archive_exists \in BOOLEAN
    /\ union_args = None
    /\ targets = None
    /\ final_sql = None
    /\ params_doubled = None

\* The manager before it makes its watcher; run() is the only thread that
\* will be in _check_and_heal.
InitWatcher == WatcherInit(WatcherThreads)

\* All but the store files, their indexes and the watcher.
besideWatcher ==
    <<phase, date_from, date_to, targets, union_args, final_sql, params_doubled, storeVars,
      call, query_params, result, cursorVars, pageVars, now, writes, _db_version_cache,
      _db_version_timestamp, _api_cache, _cache_lock, pc, req, ret, first, connections,
      _local, _all_connections, seen_size, conn_ret, sandboxVars, limiterVars>>

fileVars == <<live_mtime, live_size, archive_mtime, archive_size, archive_exists>>

\* The file of a store gets the modification time m and the size z.
SetFile(store, m, z) ==
    IF store = "live"
    THEN /\ live_mtime' = m
         /\ live_size' = z
         /\ UNCHANGED <<archive_mtime, archive_size, archive_exists>>
    ELSE /\ archive_mtime' = m
         /\ archive_size' = z
         /\ UNCHANGED <<live_mtime, live_size, archive_exists>>

\* Another process rewrites a store file: another (mtime, size), and the
\* indexes it had or those the new content comes with.
ModifyStore ==
    /\ \E store \in Stores : \E state \in FileStates(store) :
          /\ Exists(store)
          /\ state # get_file_state(store)
          /\ SetFile(store, state[1], state[2])
          /\ \E ix \in IndexInputs \cup {indexes[store]} :
                indexes' = [indexes EXCEPT ![store] = ix]
    /\ UNCHANGED <<besideWatcher, db_states, log_queue, cycle, heal_ret, running>>

\* The archive file is removed, or put there.
ToggleArchive ==
    /\ archive_exists' = ~archive_exists
    /\ UNCHANGED <<besideWatcher, live_mtime, live_size, archive_mtime, archive_size,
                   watcherVars>>

Event(level, event, store) == [level |-> level, event |-> event, store |-> store]

\* The stores whose files are there, live before archive.
Tracked == SelectSeq(<<"live", "archive">>, LAMBDA store : Exists(store))

\* toggle_watcher of the manager: DBWatcher(log_queue) and start(), when
\* there is no live watcher.  run() announces the start.
StartWatcher ==
    /\ running # "alive"
    /\ running' = "alive"
    /\ db_states' = [store \in {Tracked[i] : i \in DOMAIN Tracked} |-> get_file_state(store)]
    /\ log_queue' = <<Event("SUCCESS", "started", "")>>
    /\ cycle' = [t \in DOMAIN cycle |-> NoCycle]
    /\ UNCHANGED <<besideWatcher, fileVars, indexes, heal_ret>>

\* The watcher ends between two cycles: stop(), or the end of the manager.
StopWatcher ==
    /\ running = "alive"
    /\ \A t \in WatcherThreads : cycle[t].pc = "idle"
    /\ running' = "stopped"
    /\ log_queue' = Append(log_queue, Event("INFO", "stopped", ""))
    /\ UNCHANGED <<besideWatcher, fileVars, db_states, cycle, indexes, heal_ret>>

\* Thread t begins _check_and_heal: list(self.db_states.items()).
BeginCycle(t) ==
    /\ running = "alive"
    /\ cycle[t].pc = "idle"
    /\ log_queue' = <<>>
    /\ \E keys \in {SelectSeq(<<"live", "archive">>,
                                LAMBDA store : store \in DOMAIN db_states)} :
          cycle' = [cycle EXCEPT ![t] =
                       [NoCycle EXCEPT !.pc = "next",
                                       !.todo = [i \in DOMAIN keys |->
                                                    <<keys[i], db_states[keys[i]]>>]]]
    /\ heal_ret' = NoHeal
    /\ UNCHANGED <<besideWatcher, fileVars, db_states, indexes, running>>

\* The loop of _check_and_heal comes to its next store: a file that is not
\* there or has its last known state is passed over; for another the change
\* is reported and wait_for_stabilization takes its first reading.
Examine(t) ==
    /\ cycle[t].pc = "next"
    /\ IF cycle[t].todo = <<>>
       THEN /\ cycle' = [cycle EXCEPT ![t] = NoCycle]
            /\ log_queue' = <<>>
       ELSE \E store \in {Head(cycle[t].todo)[1]}, last \in {Head(cycle[t].todo)[2]} :
               IF ~Exists(store) \/ get_file_state(store) = last
               THEN /\ cycle' = [cycle EXCEPT ![t] =
                                    [NoCycle EXCEPT !.pc = "next",
                                                    !.todo = Tail(cycle[t].todo)]]
                    /\ UNCHANGED log_queue
               ELSE /\ log_queue' = Append(log_queue, Event("WARN", "changed", store))
                    /\ cycle' = [cycle EXCEPT ![t] =
                                    [pc |-> "sleep", todo |-> Tail(cycle[t].todo),
                                     store |-> store, last |-> get_file_state(store),
                                     checks |-> 0, retry |-> 0,
                                     streak |-> 0]]
    /\ heal_ret' = NoHeal
    /\ UNCHANGED <<besideWatcher, fileVars, db_states, indexes, running>>

\* One check of wait_for_stabilization that goes on counting after a change
\* instead of beginning again.
StabilityCheckWithoutRestart(t) ==
    /\ cycle[t].pc = "sleep"
    /\ \E current \in {get_file_state(cycle[t].store)} :
          IF cycle[t].checks + 1 = STABILIZATION_CHECKS
          THEN /\ log_queue' = Append(log_queue, Event("INFO", "stable", cycle[t].store))
               /\ cycle' = [cycle EXCEPT ![t].pc = "heal",
                                         ![t].checks = @ + 1,
                                         ![t].last = current,
                                         ![t].streak = IF current = cycle[t].last
                                                       THEN @ + 1 ELSE 0]
          ELSE /\ cycle' = [cycle EXCEPT ![t].checks = @ + 1,
                                         ![t].last = current,
                                         ![t].streak = IF current = cycle[t].last
                                                       THEN @ + 1 ELSE 0]
               /\ UNCHANGED log_queue
    /\ UNCHANGED <<besideWatcher, fileVars, db_states, indexes, heal_ret, running>>

\* One check of a wait_for_stabilization that begins again after every
\* change, however many there were (the count stops one past the maximum).
StabilityCheckWithoutMaximum(t) ==
    /\ cycle[t].pc = "sleep"
    /\ \E current \in {get_file_state(cycle[t].store)} :
          IF current # cycle[t].last
          THEN IF ~Exists(cycle[t].store)
               THEN /\ log_queue' = Append(log_queue,
                                           Event("WARN", "unstable", cycle[t].store))
                    /\ cycle' = [cycle EXCEPT ![t] =
                                    [NoCycle EXCEPT !.pc = "next", !.todo = cycle[t].todo,
                                                    !.store = cycle[t].store,
                                                    !.retry = cycle[t].retry]]
               ELSE /\ cycle' = [cycle EXCEPT ![t].last = current,
                                              ![t].checks = 0,
                                              ![t].retry =
                                                  IF @ <= MAX_STABILIZATION_RETRIES
                                                  THEN @ + 1 ELSE @,
                                              ![t].streak = 0]
                    /\ UNCHANGED log_queue
          ELSE IF cycle[t].checks + 1 = STABILIZATION_CHECKS
          THEN /\ log_queue' = Append(log_queue, Event("INFO", "stable", cycle[t].store))
               /\ cycle' = [cycle EXCEPT ![t].pc = "heal",
                                         ![t].checks = @ + 1,
                                         ![t].streak = @ + 1]
          ELSE /\ cycle' = [cycle EXCEPT ![t].checks = @ + 1,
                                         ![t].streak = @ + 1]
               /\ UNCHANGED log_queue
    /\ UNCHANGED <<besideWatcher, fileVars, db_states, indexes, heal_ret, running>>

\* time.sleep(wait_seconds) is over and wait_for_stabilization reads the
\* file state.  A state other than the one the wait began with begins the
\* wait again, one level deeper, unless the file is gone or the retries are
\* used up: then the wait returns False and the store is passed over.  The
\* third reading in a row of the same state ends the wait with True.
StabilityCheck(t) ==
    /\ cycle[t].pc = "sleep"
    /\ \E current \in {get_file_state(cycle[t].store)} :
          IF current # cycle[t].last
          THEN IF ~Exists(cycle[t].store) \/ cycle[t].retry + 1 >= MAX_STABILIZATION_RETRIES
               THEN /\ log_queue' = Append(log_queue,
                                           Event("WARN", "unstable", cycle[t].store))
                    /\ cycle' = [cycle EXCEPT ![t] =
                                    [NoCycle EXCEPT !.pc = "next", !.todo = cycle[t].todo,
                                                    !.store = cycle[t].store,
                                                    !.retry = cycle[t].retry + 1]]
               ELSE /\ cycle' = [cycle EXCEPT ![t].last = current,
                                              ![t].checks = 0,
                                              ![t].retry = @ + 1,
                                              ![t].streak = 0]
                    /\ UNCHANGED log_queue
          ELSE IF cycle[t].checks + 1 = STABILIZATION_CHECKS
          THEN /\ log_queue' = Append(log_queue, Event("INFO", "stable", cycle[t].store))
               /\ cycle' = [cycle EXCEPT ![t].pc = "heal",
                                         ![t].checks = @ + 1,
                                         ![t].streak = @ + 1]
          ELSE /\ cycle' = [cycle EXCEPT ![t].checks = @ + 1,
                                         ![t].streak = @ + 1]
               /\ UNCHANGED log_queue
    /\ UNCHANGED <<besideWatcher, fileVars, db_states, indexes, heal_ret, running>>

\* The event _check_and_heal puts for a result of check_and_heal_indexes.
HealEvent(r, store) ==
    IF r.healed # <<>> THEN Event("SUCCESS", "healed", store)
    ELSE IF r.error # <<>> THEN Event("ERROR", "failed", store)
    ELSE Event("INFO", "healthy", store)

\* check_and_heal_indexes(db_file) on the stabilized store, the event for
\* its result, and the new last known state.  Creating an index rewrites
\* the file.
Heal(t) ==
    /\ cycle[t].pc = "heal"
    /\ \E store \in {cycle[t].store}, failure \in Failures :
       \E r \in {check_and_heal_indexes(Exists(store), indexes[store], failure)} :
       \E state \in IF r.healed = <<>> THEN {get_file_state(store)}
                     ELSE FileStates(store) \ {get_file_state(store)} :
          /\ IF r.healed = <<>>
             THEN UNCHANGED fileVars
             ELSE SetFile(store, state[1], state[2])
          /\ db_states' = [db_states EXCEPT ![store] = state]
          /\ indexes' = [indexes EXCEPT ![store] = r.existing]
          /\ heal_ret' = [some |-> TRUE, store |-> store, before |-> indexes[store],
                          result |-> r, restarts |-> cycle[t].retry]
          /\ log_queue' = Append(log_queue, HealEvent(r, store))
    /\ cycle' = [cycle EXCEPT ![t] =
                    [NoCycle EXCEPT !.pc = "next", !.todo = cycle[t].todo,
                                    !.store = cycle[t].store]]
    /\ UNCHANGED <<besideWatcher, running>>

NextWatcher ==
    \/ ModifyStore
    \/ ToggleArchive
    \/ StartWatcher
    \/ StopWatcher
    \/ \E t \in WatcherThreads : BeginCycle(t) \/ Examine(t) \/ StabilityCheck(t) \/ Heal(t)

SpecWatcher == InitWatcher /\ [][NextWatcher]_vars

\* C22: check_and_heal_indexes runs in a cycle only when the last
\* STABILIZATION_CHECKS readings of the file state each equalled the reading
\* before it; a reading that differs begins the count again.
C22_HealOnlyAfterStableChecks ==
    [][\A t \in WatcherThreads :
          (heal_ret'.some /\ ~heal_ret.some)
              => /\ cycle[t].pc = "heal"
                 /\ cycle[t].streak >= STABILIZATION_CHECKS]_vars

\* A store was healed after its file had changed twice during the wait.
C22_Witness ==
    /\ heal_ret.some
    /\ heal_ret.restarts >= 2

\* The watcher thread is scheduled: a sleep of the wait comes to its end.
SpecWatcherFair ==
    /\ SpecWatcher
    /\ \A t \in WatcherThreads : WF_vars(StabilityCheck(t))

LastEvent == log_queue[Len(log_queue)]

(***************************************************************************)
(* The watcher with its thread scheduled: every step of run() that can be  *)
(* taken is taken in the end.                                              *)
(***************************************************************************)
SpecWatcherLive ==
    /\ SpecWatcher
    /\ \A t \in WatcherThreads :
          /\ WF_vars(BeginCycle(t))
          /\ WF_vars(Examine(t))
          /\ WF_vars(StabilityCheck(t))
          /\ WF_vars(Heal(t))

\* The last known state of a store, (0, 0) for one the watcher has none of.
Recorded(store) == IF store \in DOMAIN db_states THEN db_states[store] ELSE <<0, 0>>

\* The states of the file of a store, (0, 0) when it is not there.
StatesOf(store) == FileStates(store) \cup {<<0, 0>>}

\* A cycle given up as unstable leaves the last known states as they are.
UnstableKeepsState ==
    [][(log_queue' # log_queue /\ log_queue' # <<>> /\ log_queue'[Len(log_queue')].event = "unstable")
          => db_states' = db_states]_vars

\* C33: for each of the two stores, a missing file counting as state
\* (0, 0): when the file state has changed and stays as it is while the
\* watcher keeps running, a later cycle detects the change, finds the store
\* stable and heals it, after which the state is the last known one; and a
\* cycle given up as unstable leaves the last known state untouched.
C33_ChangeIsHealed ==
    /\ \A store \in Stores : \A state \in StatesOf(store) :
          <>[](running = "alive" /\ get_file_state(store) = state)
              => <>[](Recorded(store) = state)
    /\ UnstableKeepsState

\* The same for the files that are there in the end.
ChangeToExistingIsHealed ==
    \A store \in Stores : \A state \in FileStates(store) :
        <>[](running = "alive" /\ get_file_state(store) = state)
            => <>[](Recorded(store) = state)

\* What holds: the change of a file that was there when the watcher was
\* made, and is there in the end, is healed.
TrackedChangeIsHealed ==
    \A store \in Stores : \A state \in FileStates(store) :
        <>[](running = "alive" /\ store \in DOMAIN db_states
                /\ get_file_state(store) = state)
            => <>[](Recorded(store) = state)


\* C23: wait_for_stabilization begins again at most
\* MAX_STABILIZATION_RETRIES times; it returns False, and the store is not
\* healed, when the file is found missing; and every wait ends, however
\* the file goes on changing.
C23_WaitTerminates ==
    /\ [](\A t \in WatcherThreads : cycle[t].retry <= MAX_STABILIZATION_RETRIES)
    /\ [][\A t \in WatcherThreads :
             (cycle[t].pc = "sleep" /\ cycle'[t] # cycle[t] /\ ~Exists(cycle[t].store))
                 => /\ cycle'[t].pc = "next"
                    /\ log_queue' = Append(log_queue,
                                           Event("WARN", "unstable", cycle[t].store))
                    /\ heal_ret' = heal_ret]_vars
    /\ \A t \in WatcherThreads : (cycle[t].pc = "sleep") ~> (cycle[t].pc # "sleep")

\* The wait gave up on a file that was there at every reading and had
\* changed at MAX_STABILIZATION_RETRIES of them.
C23_Witness ==
    \E t \in WatcherThreads :
        /\ cycle[t].pc = "next"
        /\ cycle[t].retry = MAX_STABILIZATION_RETRIES
        /\ log_queue # <<>>
        /\ LastEvent = Event("WARN", "unstable", cycle[t].store)

Required == {REQUIRED_INDEXES[i] : i \in DOMAIN REQUIRED_INDEXES}

Names(names) == {names[i] : i \in DOMAIN names}

\* C24: a run of check_and_heal_indexes adds to the indexes of the store
\* the names it reports in 'healed' and nothing else, takes none away, and
\* reports only missing required ones; a run without error reports every
\* missing required index, leaves all required ones in place, and a run
\* after it reports nothing and changes nothing.
C24_HealsExactlyTheMissing ==
    [][(heal_ret'.some /\ ~heal_ret.some)
          => \A store \in {heal_ret'.store}, r \in {heal_ret'.result} :
                /\ heal_ret'.before = indexes[store]
                /\ indexes'[store] = indexes[store] \cup Names(r.healed)
                /\ \A other \in Stores \ {store} : indexes'[other] = indexes[other]
                /\ Names(r.healed) \subseteq Required \ indexes[store]
                /\ r.error = <<>>
                      => /\ r.healed = MissingIndexes(indexes[store])
                         /\ Required \subseteq indexes'[store]
                         /\ \A again \in {check_and_heal_indexes(TRUE, indexes'[store], 0)} :
                               /\ again.healed = <<>>
                               /\ again.error = <<>>
                               /\ again.existing = indexes'[store]]_vars

\* A run without error created the two missing indexes of a store that had
\* one required index and another one besides.
C24_Witness ==
    /\ heal_ret.some
    /\ heal_ret.result.error = <<>>
    /\ heal_ret.before = {"idx_item_code", OTHER_INDEX}
    /\ heal_ret.result.healed = <<"idx_production_date", "idx_item_date">>
    /\ indexes[heal_ret.store] = Required \cup {OTHER_INDEX}

\* C25: a watcher started again after it was stopped knows of every store
\* the state it knew when it stopped, so that a file rewritten meanwhile
\* differs from it in the first cycle.
C25_LastKnownStateSurvivesRestart ==
    [][(running = "stopped" /\ running' = "alive")
          => \A store \in DOMAIN db_states :
                /\ store \in DOMAIN db_states'
                /\ db_states'[store] = db_states[store]]_vars

\* As long as the watcher is alive, what it knows of a store changes only
\* when it has healed the store.
LastKnownStateKeptWhileAlive ==
    [][(running = "alive" /\ running' = "alive" /\ db_states' # db_states)
          => heal_ret'.some /\ ~heal_ret.some]_vars

\* A watcher begun after a stop takes the state the files have then.
RestartReadsTheFiles ==
    [][(running = "stopped" /\ running' = "alive")
          => \A store \in DOMAIN db_states' : db_states'[store] = get_file_state(store)]_vars

HealOutcomes(store) ==
    {Event("SUCCESS", "healed", store), Event("ERROR", "failed", store),
     Event("INFO", "healthy", store)}

\* C26: the run of check_and_heal_indexes in a cycle comes after the
\* 'stable' event of its store and puts exactly one event, which is the
\* failure event whenever the run ended with an error.
C26_EveryOutcomeReported ==
    [][(heal_ret'.some /\ ~heal_ret.some)
          => \E store \in {heal_ret'.store} :
                /\ log_queue # <<>>
                /\ LastEvent = Event("INFO", "stable", store)
                /\ \E e \in HealOutcomes(store) :
                      /\ log_queue' = Append(log_queue, e)
                      /\ heal_ret'.result.error # <<>> => e = Event("ERROR", "failed", store)]_vars

RECURSIVE WellReported(_)
\* The events of stores done with in a cycle: for each a 'changed' event and
\* then 'unstable', or 'stable' and one outcome of the heal.
WellReported(log) ==
    \/ log = <<>>
    \/ /\ Len(log) >= 2
       /\ log[1].event = "changed"
       /\ log[2] = Event("WARN", "unstable", log[1].store)
       /\ WellReported(SubSeq(log, 3, Len(log)))
    \/ /\ Len(log) >= 3
       /\ log[1].event = "changed"
       /\ log[2] = Event("INFO", "stable", log[1].store)
       /\ log[3] \in HealOutcomes(log[1].store)
       /\ WellReported(SubSeq(log, 4, Len(log)))

\* In a cycle the queue holds the events of the stores done with and the
\* events so far of the store in hand.
OutcomesReported ==
    \A t \in WatcherThreads :
        /\ cycle[t].pc = "next" => WellReported(log_queue)
        /\ cycle[t].pc = "sleep"
              => /\ log_queue # <<>>
                 /\ LastEvent = Event("WARN", "changed", cycle[t].store)
                 /\ WellReported(SubSeq(log_queue, 1, Len(log_queue) - 1))
        /\ cycle[t].pc = "heal"
              => /\ Len(log_queue) >= 2
                 /\ LastEvent = Event("INFO", "stable", cycle[t].store)
                 /\ log_queue[Len(log_queue) - 1] = Event("WARN", "changed", cycle[t].store)
                 /\ WellReported(SubSeq(log_queue, 1, Len(log_queue) - 2))

\* A run that ended with an error and had created nothing is reported as a
\* failure; one that had created an index is reported as healed.
HealEventByResult ==
    [][(heal_ret'.some /\ ~heal_ret.some)
          => \A store \in {heal_ret'.store}, r \in {heal_ret'.result} :
                log_queue' = Append(log_queue,
                    IF r.healed # <<>> THEN Event("SUCCESS", "healed", store)
                    ELSE IF r.error # <<>> THEN Event("ERROR", "failed", store)
                    ELSE Event("INFO", "healthy", store))]_vars

(***************************************************************************)
(* The watcher with the manual check of the manager: manual_db_check calls *)
(* manual_trigger, which runs _check_and_heal on a thread of its own.      *)
(***************************************************************************)
ManualThreads == {"manual"}

\* The live store alone is there.
InitTrigger ==
    /\ WatcherInit(WatcherThreads \cup ManualThreads)
    /\ ~archive_exists
    /\ indexes["archive"] = indexes["live"]

\* threading.Thread(target=self._check_and_heal, daemon=True).start() on
\* the live watcher.
ManualTrigger(t) ==
    /\ t \in ManualThreads
    /\ BeginCycle(t)

NextTrigger ==
    \/ ModifyStore
    \/ StartWatcher
    \/ \E t \in WatcherThreads : BeginCycle(t) \/ Examine(t) \/ StabilityCheck(t) \/ Heal(t)
    \/ \E t \in ManualThreads :
          ManualTrigger(t) \/ Examine(t) \/ StabilityCheck(t) \/ Heal(t)

SpecTrigger == InitTrigger /\ [][NextTrigger]_vars

\* Thread t waits for the store to be stable or heals it.
InCycleOn(t, store) == cycle[t].pc \in {"sleep", "heal"} /\ cycle[t].store = store

\* No two threads are in a cycle on the same store.
OneCycleAtATime ==
    \A store \in Stores : \A t1, t2 \in DOMAIN cycle :
        (InCycleOn(t1, store) /\ InCycleOn(t2, store)) => t1 = t2

\* The last known state of a running watcher is written by run() alone.
WrittenByRunOnly ==
    (running = "alive" /\ running' = "alive" /\ db_states' # db_states)
        => \E t \in WatcherThreads : cycle[t].pc = "heal" /\ cycle'[t].pc # "heal"

\* C36: at most one stabilization-and-heal cycle runs on a store at any
\* time and the last known state is written by one thread only: a manual
\* trigger during a scheduled check starts no second cycle on the store.
C36_OneCycleOneWriter == []OneCycleAtATime /\ [][WrittenByRunOnly]_vars

(***************************************************************************)
(* start(), run() and stop() of one DBWatcher step by step.  Here running  *)
(* tells where the thread is, what self.running holds and whether stop()   *)
(* has been called:                                                        *)
(*   "started"        start() was called, run() has not begun   (False)    *)
(*   "stopped early"  stop() was called before run() began      (False)    *)
(*   "alive"          run() sleeps between two checks           (True)     *)
(*   "revived"        the same, begun after a stop()            (True)     *)
(*   "due"            the interval is over, the flag was tested (True)     *)
(*   "due revived"    the same, begun after a stop()            (True)     *)
(*   "due stopped"    stop() came between the test and the call (False)    *)
(*   "stopping"       stop() was called, run() has not seen it  (False)    *)
(*   "stopped"        run() has returned                                   *)
(***************************************************************************)
InitStop ==
    /\ WatcherInit(WatcherThreads)
    /\ ~archive_exists
    /\ indexes["archive"] = indexes["live"]

\* DBWatcher(log_queue) and start() by toggle_watcher.
StartThread ==
    /\ running = "none"
    /\ running' = "started"
    /\ db_states' = [store \in {Tracked[i] : i \in DOMAIN Tracked} |-> get_file_state(store)]
    /\ UNCHANGED <<besideWatcher, fileVars, indexes, heal_ret, log_queue, cycle>>

\* The first statements of run(): self.running = True and the event.
RunBegins ==
    /\ running \in {"started", "stopped early"}
    /\ running' = IF running = "started" THEN "alive" ELSE "revived"
    /\ log_queue' = Append(log_queue, Event("SUCCESS", "started", ""))
    /\ UNCHANGED <<besideWatcher, fileVars, db_states, indexes, heal_ret, cycle>>

\* stop(): self.running = False and the event.
Stop ==
    /\ running \in {"started", "alive", "revived", "due", "due revived"}
    /\ running' = CASE running = "started" -> "stopped early"
                    [] running \in {"alive", "revived"} -> "stopping"
                    [] running \in {"due", "due revived"} -> "due stopped"
    /\ log_queue' = Append(log_queue, Event("INFO", "stopped", ""))
    /\ UNCHANGED <<besideWatcher, fileVars, db_states, indexes, heal_ret, cycle>>

\* The tests of self.running in the loop of run(), thread t being between
\* two checks: False ends run(); True, when the interval is over, lets it
\* go on to _check_and_heal.
TestFlag(t) ==
    /\ cycle[t].pc = "idle"
    /\ running \in {"alive", "revived", "stopping"}
    /\ running' = CASE running = "alive" -> "due"
                    [] running = "revived" -> "due revived"
                    [] running = "stopping" -> "stopped"
    /\ UNCHANGED <<besideWatcher, fileVars, db_states, indexes, heal_ret, cycle, log_queue>>

\* self._check_and_heal() after the test: list(self.db_states.items()).
BeginCheck(t) ==
    /\ cycle[t].pc = "idle"
    /\ running \in {"due", "due revived", "due stopped"}
    /\ running' = CASE running = "due" -> "alive"
                    [] running = "due revived" -> "revived"
                    [] running = "due stopped" -> "stopping"
    /\ log_queue' = <<>>
    /\ \E keys \in {SelectSeq(<<"live", "archive">>,
                                LAMBDA store : store \in DOMAIN db_states)} :
          cycle' = [cycle EXCEPT ![t] =
                       [NoCycle EXCEPT !.pc = "next",
                                       !.todo = [i \in DOMAIN keys |->
                                                    <<keys[i], db_states[keys[i]]>>]]]
    /\ heal_ret' = NoHeal
    /\ UNCHANGED <<besideWatcher, fileVars, db_states, indexes>>

NextStop ==
    \/ ModifyStore
    \/ StartThread
    \/ RunBegins
    \/ Stop
    \/ \E t \in WatcherThreads :
          TestFlag(t) \/ BeginCheck(t) \/ Examine(t) \/ StabilityCheck(t) \/ Heal(t)

SpecStop == InitStop /\ [][NextStop]_vars

\* The watcher thread is scheduled.
SpecStopFair ==
    /\ SpecStop
    /\ WF_vars(RunBegins)
    /\ \A t \in WatcherThreads :
          /\ WF_vars(TestFlag(t))
          /\ WF_vars(BeginCheck(t))
          /\ WF_vars(Examine(t))
          /\ WF_vars(StabilityCheck(t))
          /\ WF_vars(Heal(t))

\* stop() has been called on the started watcher.
StopCalled ==
    running \in {"stopped early", "revived", "due revived", "due stopped", "stopping",
                 "stopped"}

\* No check cycle begins once stop() has been called.
NoCycleAfterStop ==
    \A t \in WatcherThreads :
        (StopCalled /\ cycle[t].pc = "idle") => cycle'[t].pc = "idle"

\* C37: after stop() has been called on a started watcher the thread exits
\* in the end and begins no new check cycle, however start(), run() and
\* stop() interleave.
C37_StopEndsThread ==
    /\ StopCalled ~> (running = "stopped")
    /\ [][NoCycleAfterStop]_vars

\* What holds: a stop() that finds run() between two checks, the flag
\* set by run() and not yet tested again, ends the thread without another
\* cycle.
StopBetweenChecksEndsThread ==
    /\ (running = "stopping") ~> (running = "stopped")
    /\ [][\A t \in WatcherThreads :
              (running = "stopping" /\ cycle[t].pc = "idle") => cycle'[t].pc = "idle"]_vars

(***************************************************************************)
(* The waits of the two scripts, tools/watcher.py and tools/backup_db.py,  *)
(* each run as a process of its own while other processes rewrite the      *)
(* store files.  wait_for_stabilization calls itself after every change;   *)
(* the interpreter ends the recursion with RecursionError.                 *)
(***************************************************************************)
Scripts == {"watcher.py", "backup_db.py"}

\* The recursion depth the interpreter allows a wait (1000 frames less
\* those of the callers in Python; a small number here).
RecursionLimit == 7

InitScripts == WatcherInit(Scripts)

\* Another process rewrites a store file.
RewriteStore ==
    /\ \E store \in Stores : \E state \in FileStates(store) :
          /\ Exists(store)
          /\ state # get_file_state(store)
          /\ SetFile(store, state[1], state[2])
    /\ UNCHANGED <<besideWatcher, watcherVars>>

\* A run of script t comes to wait_for_stabilization(db_path): False for a
\* file that is not there, else the first reading.  The scripts are run one
\* at a time, their waits sharing nothing.
ScriptBegin(t) ==
    /\ cycle[t].pc = "idle"
    /\ \A u \in Scripts : cycle[u].pc = "idle"
    /\ \E store \in Stores :
          cycle' = [cycle EXCEPT ![t] =
                       IF ~Exists(store)
                       THEN [NoCycle EXCEPT !.pc = "False", !.store = store]
                       ELSE [NoCycle EXCEPT !.pc = "sleep", !.store = store,
                                            !.last = get_file_state(store)]]
    /\ UNCHANGED <<besideWatcher, fileVars, db_states, log_queue, indexes, heal_ret, running>>

\* A sleep of the wait is over and the file state is read.  backup_db.py
\* returns False for a file that has disappeared; a reading that differs
\* from the first makes the wait call itself, which raises RecursionError
\* at the depth the interpreter allows and returns False for a file that is
\* not there; the third reading of the same state returns True.
ScriptCheck(t) ==
    /\ cycle[t].pc = "sleep"
    /\ \E current \in {get_file_state(cycle[t].store)} :
          cycle' = [cycle EXCEPT ![t] =
                       IF t = "backup_db.py" /\ ~Exists(cycle[t].store)
                       THEN [@ EXCEPT !.pc = "False"]
                       ELSE IF current # cycle[t].last
                       THEN IF cycle[t].retry + 1 >= RecursionLimit
                            THEN [@ EXCEPT !.pc = "RecursionError", !.retry = @ + 1]
                            ELSE IF ~Exists(cycle[t].store)
                            THEN [@ EXCEPT !.pc = "False", !.retry = @ + 1]
                            ELSE [@ EXCEPT !.last = current, !.checks = 0, !.retry = @ + 1]
                       ELSE IF cycle[t].checks + 1 = STABILIZATION_CHECKS
                       THEN [@ EXCEPT !.pc = "True", !.checks = @ + 1]
                       ELSE [@ EXCEPT !.checks = @ + 1]]
    /\ UNCHANGED <<besideWatcher, fileVars, db_states, log_queue, indexes, heal_ret, running>>

\* The run of the script is over.
ScriptEnd(t) ==
    /\ cycle[t].pc \in {"True", "False", "RecursionError"}
    /\ cycle' = [cycle EXCEPT ![t] = NoCycle]
    /\ UNCHANGED <<besideWatcher, fileVars, db_states, log_queue, indexes, heal_ret, running>>

NextScripts ==
    \/ RewriteStore
    \/ ToggleArchive
    \/ \E t \in Scripts : ScriptBegin(t) \/ ScriptCheck(t) \/ ScriptEnd(t)

SpecScripts == InitScripts /\ [][NextScripts]_vars

\* The script is scheduled: a sleep of its wait comes to its end.
SpecScriptsFair ==
    /\ SpecScripts
    /\ \A t \in Scripts : WF_vars(ScriptCheck(t))

\* C40: the waits of the watcher script and of the backup script end for a
\* file that never stops changing: the wait begins again no more often than
\* the maximum of retries allows, and then returns False, so that the cycle
\* is given up.
C40_ScriptWaitsTerminate ==
    /\ [](\A t \in Scripts : /\ cycle[t].retry <= MAX_STABILIZATION_RETRIES
                             /\ cycle[t].pc # "RecursionError")
    /\ \A t \in Scripts : (cycle[t].pc = "sleep") ~> (cycle[t].pc # "sleep")

\* What holds: the wait ends, by the interpreter's limit if by nothing
\* else.
ScriptWaitEndsAtRecursionLimit ==
    /\ [](\A t \in Scripts : cycle[t].retry <= RecursionLimit)
    /\ \A t \in Scripts : (cycle[t].pc = "sleep") ~> (cycle[t].pc # "sleep")

(***************************************************************************)
(* A request from its targets to its rows: the handlers build the          *)
(* statement with build_union_sql or build_aggregation_sql, its parameters *)
(* with build_query_params and execute it with DBRouter.query on a         *)
(* connection asked for with use_archive = targets.use_archive.  The       *)
(* archive file is there or not for the whole request.                     *)
(***************************************************************************)
\* The parameters a caller passes for a WHERE clause of WhereInputs.
BaseParams(where_clause) ==
    IF where_clause = <<"1=1">> THEN <<>>
    ELSE IF where_clause = <<"item_code = ?">> THEN <<"A">>
    ELSE <<Chars("2025-12-31"), Chars("2026-01-02")>>

\* (inner_select, outer_select, outer_group_by, outer_order_by, limit) of
\* the summary and of the summary by item.
AggregationInputs ==
    {[inner_select |-> INNER_SUMMARY, outer_select |-> OUTER_SUMMARY, outer_group_by |-> "",
      outer_order_by |-> "", limit |-> NoLimit],
     [inner_select |-> INNER_BY_ITEM, outer_select |-> OUTER_BY_ITEM,
      outer_group_by |-> "item_code", outer_order_by |-> "total_production DESC",
      limit |-> <<100>>]}

StoredRow(d) == [production_date |-> d, item_code |-> "A", good_quantity |-> 2]

InitQuery ==
    /\ phase = "input"
    /\ date_from \in RangeDates \cup {None}
    /\ date_to \in {"2025-12-31", "2026-01-01", None}
    /\ archive_exists \in BOOLEAN
    /\ union_args \in UnionArgInputs
    /\ targets = None
    /\ final_sql = None
    /\ params_doubled = None
    /\ archive_rows = IF archive_exists THEN <<StoredRow("2025-12-31")>> ELSE <<>>
    /\ live_rows \in {<<StoredRow("2026-01-01")>>,
                     <<StoredRow("2026-01-01"), StoredRow("2026-01-02")>>}
    /\ call = [NoCall EXCEPT !.where = union_args.where_clause,
                             !.params = BaseParams(union_args.where_clause)]
    /\ query_params = None
    /\ result = NoResult
    /\ NoPaging
    /\ NoCache
    /\ NoServices

\* sql, params_doubled = DBRouter.build_aggregation_sql(...)
BuildAggregationSql ==
    /\ phase \in {"picked", "given"}
    /\ \E a \in AggregationInputs :
       \E r \in {build_aggregation_sql(a.inner_select, call.where, a.outer_select,
                                       a.outer_group_by, targets, a.outer_order_by,
                                       a.limit)} :
          /\ final_sql' = r.sql
          /\ params_doubled' = r.params_doubled
          /\ call' = [call EXCEPT !.name = "build_aggregation_sql",
                                  !.group_by = a.outer_group_by]
    /\ phase' = "built"
    /\ UNCHANGED <<date_from, date_to, archive_exists, targets, union_args, storeVars,
                   query_params, result, cursorVars, pageVars, cacheVars, serviceVars>>

\* query_params = DBRouter.build_query_params(params, targets): a new list;
\* the list passed is read only.
BuildQueryParams ==
    /\ phase = "built"
    /\ query_params' = build_query_params(call.params, targets, Chars(ARCHIVE_CUTOFF_DATE))
    /\ phase' = "params"
    /\ UNCHANGED <<date_from, date_to, archive_exists, targets, union_args, final_sql,
                   params_doubled, storeVars, call, result, cursorVars, pageVars, cacheVars,
                   serviceVars>>

\* The rows of a statement built by build_union_sql, in no order (its LIMIT
\* exceeds the rows of the model).
ExecRows(sql, params, attached) ==
    IF ExecFails(sql, params, attached) THEN [ok |-> FALSE, rows |-> {}]
    ELSE [ok |-> TRUE,
          rows |-> UNION {{UnionRow(r, BranchSource(sql, i)) :
                              r \in BranchRows(sql, params, i)} : i \in FromAt(sql)}]

\* DBRouter.query(sql, query_params, use_archive=targets.use_archive) by
\* thread t: get_connection, execute, fetchall.
Query(t) ==
    /\ phase = "params"
    /\ \E alive \in BOOLEAN, connect_fails \in BOOLEAN, attach_fails \in BOOLEAN :
       \E key \in {<<targets.use_archive, TRUE>>} :
       \E r \in {get_connection(_local[t][key], targets.use_archive, TRUE,
                                alive, connect_fails, attach_fails)} :
       \E rows \in {IF r.raised THEN [ok |-> FALSE, rows |-> {}]
                    ELSE IF call.name = "build_aggregation_sql"
                    THEN ExecAggregation(final_sql, query_params,
                                         r.connections[r.conn].attached)
                    ELSE ExecRows(final_sql, query_params,
                                  r.connections[r.conn].attached)} :
          /\ connections' =
                IF r.raised THEN r.connections
                ELSE [r.connections EXCEPT ![r.conn].returned_to = @ \cup {t}]
          /\ _local' =
                IF r.cached
                THEN [_local EXCEPT ![t][key] =
                         [conn |-> <<r.conn>>, mtime |-> <<_get_db_mtime>>]]
                ELSE _local
          /\ _all_connections' =
                IF r.cached THEN Append(_all_connections, r.conn) ELSE _all_connections
          /\ seen_size' =
                IF r.cached THEN [seen_size EXCEPT ![t][key] = FileSizes] ELSE seen_size
          /\ conn_ret' =
                [NoConnRet EXCEPT !.some = TRUE, !.thread = t, !.key = key,
                                  !.raised = r.raised, !.conn = r.conn, !.fresh = r.cached]
          /\ result' = [status |-> IF rows.ok THEN "success" ELSE "error",
                        rows |-> rows.rows]
    /\ phase' = "done"
    /\ UNCHANGED <<date_from, date_to, archive_exists, targets, union_args, final_sql,
                   params_doubled, storeVars, call, query_params, cursorVars, pageVars,
                   cacheVars, live_size, archive_size, sandboxVars, limiterVars,
                   watcherVars>>

NextQuery ==
    \/ PickTargets
    \/ GivenTargets
    \/ BuildUnionSql
    \/ BuildAggregationSql
    \/ BuildQueryParams
    \/ \E t \in Sequential : Query(t)

SpecQuery == InitQuery /\ [][NextQuery]_vars

(***************************************************************************)
(* The same request while another process creates or removes the archive   *)
(* file between the calls the request makes.                               *)
(***************************************************************************)
InitQueryRace ==
    /\ InitQuery
    /\ date_from = None
    /\ date_to \in {"2025-12-31", None}

NextQueryRace == NextQuery \/ ToggleArchive

SpecQueryRace == InitQueryRace /\ [][NextQueryRace]_vars

\* The ? placeholders of the branches S of a statement.
RECURSIVE PlaceholdersIn(_, _)
PlaceholdersIn(sql, S) ==
    IF S = {} THEN 0
    ELSE Only({ParamCount(BranchWhere(sql, j)) + PlaceholdersIn(sql, S \ {j}) :
               j \in {Min(S)}})

Placeholders(sql) == PlaceholdersIn(sql, FromAt(sql))

\* C35: for one request the statement of build_union_sql or of
\* build_aggregation_sql, the parameters of build_query_params and the
\* attachment made by get_connection agree on the archive branch: there are
\* as many parameters as the statement has placeholders, and the archive
\* schema, if the statement names it, is attached on the connection used;
\* whenever the archive file is created or removed between those calls.
C35_BranchesAgree ==
    /\ phase \in {"params", "done"} => Len(query_params) = Placeholders(final_sql)
    /\ (phase = "done" /\ ~conn_ret.raised /\ Count(final_sql, FROM_ARCHIVE) > 0)
          => connections[conn_ret.conn].attached

\* The archive is asked for and its file is not there.
ArchiveMissing == phase # "input" /\ targets.use_archive /\ ~archive_exists

Cutoffs == <<Chars(ARCHIVE_CUTOFF_DATE)>>

\* C27: with the archive selected and its file missing, the statement of
\* build_union_sql and of build_aggregation_sql has no archive branch and
\* params_doubled is false, build_query_params gives the parameters of the
\* live branch alone (none without the live store), and the connection of
\* the query has nothing attached and the query succeeds on it.
C27_MissingArchiveDegrades ==
    ArchiveMissing =>
        /\ phase \in {"built", "params", "done"}
              => /\ Count(final_sql, FROM_ARCHIVE) = 0
                 /\ Count(final_sql, UNION_ALL) = 0
                 /\ Count(final_sql, FROM_LIVE) = 1
                 /\ params_doubled = FALSE
        /\ phase \in {"params", "done"}
              => query_params = IF targets.use_live THEN call.params \o Cutoffs ELSE <<>>
        /\ (phase = "done" /\ ~conn_ret.raised)
              => /\ ~connections[conn_ret.conn].attached
                 /\ result.status = "success"

\* A summary over both stores was answered from the live store alone.
C27_Witness ==
    /\ ArchiveMissing
    /\ targets.use_live
    /\ phase = "done"
    /\ call.name = "build_aggregation_sql"
    /\ ~conn_ret.raised
    /\ result.status = "success"
    /\ result.rows # {}

NoTargets == phase # "input" /\ targets = DBTargets(FALSE, FALSE)

\* C28: for targets that select neither store build_union_sql returns a
\* statement and params_doubled false; the statement has one branch, whose
\* condition is 1=0 and which selects no row of the stores, and executing it
\* without parameters succeeds with no rows.
C28_NoTargetsNoRows ==
    (NoTargets /\ call.name = "none") =>
        /\ phase \in {"built", "params", "done"}
              => /\ params_doubled = FALSE
                 /\ Count(final_sql, UNION_ALL) = 0
                 /\ \E i \in DOMAIN final_sql :
                       /\ FromAt(final_sql) = {i}
                       /\ BranchWhere(final_sql, i) = <<"1=0">>
                       /\ BranchRows(final_sql, <<>>, i) = {}
        /\ (phase = "done" /\ ~conn_ret.raised)
              => /\ query_params = <<>>
                 /\ result = [status |-> "success", rows |-> {}]

\* The statement for no store was executed on stores that hold rows.
C28_Witness ==
    /\ NoTargets
    /\ call.name = "none"
    /\ phase = "done"
    /\ ~conn_ret.raised
    /\ Len(live_rows) = 2
    /\ result = [status |-> "success", rows |-> {}]

\* How many of the two stores are selected and have their file.
StoresQueried ==
    Cardinality({store \in Stores :
                    IF store = "archive" THEN targets.use_archive /\ archive_exists
                    ELSE targets.use_live})

\* C29: build_query_params returns the base parameters followed by the
\* cutoff once for each selected store whose file is there: nothing for no
\* store, the sequence for one and the sequence twice for both; the list
\* passed as base parameters is afterwards what it was.
C29_ParamsPerStore ==
    phase \in {"params", "done"} =>
        /\ \A once \in {call.params \o Cutoffs} :
              query_params = CASE StoresQueried = 0 -> <<>>
                               [] StoresQueried = 1 -> once
                               [] StoresQueried = 2 -> once \o once
        /\ call.params = BaseParams(union_args.where_clause)

\* Two base parameters were given for both stores.
C29_Witness ==
    /\ phase = "params"
    /\ targets = DBTargets(TRUE, TRUE)
    /\ archive_exists
    /\ Len(call.params) = 2
    /\ Len(query_params) = 6
    /\ query_params[3] = Chars(ARCHIVE_CUTOFF_DATE)
    /\ query_params[6] = Chars(ARCHIVE_CUTOFF_DATE)

(***************************************************************************)
(* The records endpoint with a cursor of the client's own making.          *)
(***************************************************************************)
\* The token an earlier page issues for the live row 1 of 2026-01-02.
IssuedCursor == _encode_cursor(Codes("2026-01-02"), 1, Codes("live"))

\* Tokens a client sends: those of ForgedCursors, eyJkIjoxfQ== ({"d":1}),
\* WzFd ([1]), !!! and an issued one.
SentCursors ==
    ForgedCursors
    \cup {<<101, 121, 74, 107, 73, 106, 111, 120, 102, 81, 61, 61>>,
          <<87, 122, 70, 100>>, <<33, 33, 33>>, IssuedCursor}

\* cursor_data["d"], cursor_data["src"] and cursor_data["id"] raise nothing.
HasCursorKeys(data) == HasKey(data, KEY_D) /\ HasKey(data, KEY_SRC) /\ HasKey(data, KEY_ID)

\* The cursor query parameter as get_records treats it: None and "" are no
\* cursor; a decoded value that is true but has not the three keys raises
\* KeyError or TypeError where the keyset parameters are taken from it.
CursorRaises(token) ==
    /\ token # <<>>
    /\ \E data \in {_decode_cursor(token)} : Truthy(data) /\ ~HasCursorKeys(data)

\* GET /records?date_to=..&limit=P&offset=O&cursor=token
SendCursor ==
    /\ phase = "input"
    /\ \E t \in {None, "2026-01-01"}, p \in PageSizes, offset \in {0, 1},
          token \in SentCursors :
          /\ date_from' = None
          /\ date_to' = IF t # None THEN NextDay(t) ELSE None
          /\ page_size' = p
          /\ IF CursorRaises(token)
             THEN \* the exception leaves the handler: 500 Internal Server Error
                  /\ call' = [name |-> "get_records", where |-> <<>>, params |-> <<>>,
                              group_by |-> "", cursor |-> token, offset |-> offset]
                  /\ result' = [status |-> "unhandled", rows |-> {}]
                  /\ cursor_data' = _decode_cursor(token)
                  /\ UNCHANGED <<targets, final_sql, params_doubled, query_params, cursor,
                                 issued, results, has_more, fetched, npages>>
             ELSE \E r \in {get_records(None, IF t # None THEN NextDay(t) ELSE None,
                                        p, offset, token)} :
                  /\ call' = [name |-> "get_records", where |-> r.where,
                              params |-> r.params, group_by |-> "", cursor |-> token,
                              offset |-> offset]
                  /\ result' = [status |-> IF r.ok THEN "success" ELSE "error", rows |-> {}]
                  /\ cursor_data' = r.cursor_data
                  /\ targets' = r.targets
                  /\ final_sql' = r.sql
                  /\ params_doubled' = r.params_doubled
                  /\ query_params' = r.query_params
                  /\ results' = r.data
                  /\ has_more' = r.has_more
                  /\ cursor' = r.next_cursor
                  /\ issued' = (r.next_cursor # <<>>)
                  /\ fetched' = fetched \o r.data
                  /\ npages' = npages + 1
    /\ phase' = "paged"
    /\ UNCHANGED <<archive_exists, union_args, storeVars, encoded, cacheVars, serviceVars>>

NextRecords == LoadArchive \/ LoadLive \/ SendCursor

SpecRecords == InitAgg /\ [][NextRecords]_vars

\* The request carried a cursor that cannot be decoded or that decodes to
\* something without date, id and source.
InvalidCursorSent ==
    /\ phase = "paged"
    /\ call.cursor # <<>>
    /\ \E data \in {_decode_cursor(call.cursor)} : ~HasCursorKeys(data)

\* C30: a request to the records endpoint with an invalid cursor is
\* answered with an error that says so.
C30_InvalidCursorRejected ==
    InvalidCursorSent => result.status = "rejected"

\* What the endpoint does with an invalid cursor: the exception leaves the
\* handler, or the answer is the one the request gets without a cursor.
InvalidCursorIgnoredOrUnhandled ==
    InvalidCursorSent =>
        \/ /\ CursorRaises(call.cursor)
           /\ result.status = "unhandled"
        \/ /\ ~CursorRaises(call.cursor)
           /\ \E r \in {get_records(date_from, date_to, page_size, call.offset, <<>>)} :
                 /\ result.status = "success"
                 /\ results = r.data
                 /\ has_more = r.has_more
                 /\ cursor = r.next_cursor
                 /\ final_sql = r.sql
                 /\ query_params = r.query_params

\* An issued cursor is honoured: the page holds the rows after its position.
IssuedCursorHonoured ==
    (phase = "paged" /\ call.cursor = IssuedCursor) =>
        /\ result.status = "success"
        /\ Count(final_sql, KEYSET) >= 1
        /\ \A i \in DOMAIN results :
              RowBefore([production_date |-> "2026-01-02", source |-> "live", id |-> 1],
                        results[i])

====
